---- MODULE Spec2Model ----
(***************************************************************************)
(* Model of the chrome_devtools CLI session runtime (the `session`         *)
(* command of the CLI entry point), its command decoder and the            *)
(* take_change_snapshot baseline flow.                                     *)
(*                                                                         *)
(* Strings are TLA+ strings; characters are strings of length one, taken   *)
(* apart with Head/Tail/SubSeq and put together with \o.                   *)
(***************************************************************************)
EXTENDS Integers, Sequences, FiniteSets, TLC

(***************************************************************************)
(* Bounds of the model.                                                    *)
(***************************************************************************)
\* number of input lines stdin delivers in one session
MaxLines == 2

(***************************************************************************)
(* String helpers (String.prototype methods used by the source).           *)
(***************************************************************************)
\* characters matched by /\s/ that occur in the modelled input
IsWhitespace(c) == c \in {" ", "\t"}

RECURSIVE trimStart(_)
trimStart(s) ==
  IF s = "" THEN ""
  ELSE IF IsWhitespace(Head(s)) THEN trimStart(Tail(s)) ELSE s

RECURSIVE trimEnd(_)
trimEnd(s) ==
  IF s = "" THEN ""
  ELSE IF IsWhitespace(SubSeq(s, Len(s), Len(s)))
       THEN trimEnd(SubSeq(s, 1, Len(s) - 1))
       ELSE s

\* String.prototype.trim
trim(s) == trimEnd(trimStart(s))

\* String.prototype.startsWith
startsWith(s, p) == Len(s) >= Len(p) /\ SubSeq(s, 1, Len(p)) = p

\* String.prototype.slice(n) for 0 <= n
slice(s, n) == IF n >= Len(s) THEN "" ELSE SubSeq(s, n + 1, Len(s))

\* String.prototype.replaceAll(from, to) for a one-character `from`
RECURSIVE replaceAll(_, _, _)
replaceAll(s, from, to) ==
  IF s = "" THEN ""
  ELSE (IF Head(s) = from THEN to ELSE Head(s)) \o replaceAll(Tail(s), from, to)

(***************************************************************************)
(* tokenizeCliLine: shell-like tokenizer.  The result is                   *)
(* [ok |-> TRUE, tokens |-> <<...>>] or, for the thrown Error,             *)
(* [ok |-> FALSE, error |-> message].                                      *)
(***************************************************************************)
\* the closure push(): a non-empty current token is appended
push(tokens, current) ==
  IF Len(current) > 0 THEN Append(tokens, current) ELSE tokens

\* a tokenizer without quoting: a quote character is a plain character
charBranchWithoutQuotes(char, quote, escaping) ==
  IF escaping THEN "escaped"
  ELSE IF char = "\\" THEN "backslash"
  ELSE IF IsWhitespace(char) THEN "whitespace"
  ELSE "plain"

\* which branch of the for-of loop body a character takes; quote is "" for null
charBranch(char, quote, escaping) ==
  IF escaping THEN "escaped"
  ELSE IF char = "\\" THEN "backslash"
  ELSE IF quote # "" THEN (IF char = quote THEN "closeQuote" ELSE "quoted")
  ELSE IF char = "\"" \/ char = "'" THEN "openQuote"
  ELSE IF IsWhitespace(char) THEN "whitespace"
  ELSE "plain"

\* the statements after the loop when no quote is open
tokenizeEnd(tokens, current, escaping) ==
  [ok |-> TRUE, tokens |-> push(tokens, IF escaping THEN current \o "\\" ELSE current)]

\* the body of the for-of loop for one character: the loop variables after it
tokenizeChar(char, st) ==
  LET branch == charBranch(char, st.quote, st.escaping)
  IN  CASE branch = "escaped" -> [st EXCEPT !.current = @ \o char, !.escaping = FALSE]
        [] branch = "backslash" -> [st EXCEPT !.escaping = TRUE]
        [] branch = "closeQuote" -> [st EXCEPT !.quote = ""]
        [] branch = "quoted" -> [st EXCEPT !.current = @ \o char]
        [] branch = "openQuote" -> [st EXCEPT !.quote = char]
        [] branch = "whitespace" ->
             [st EXCEPT !.tokens = push(st.tokens, st.current), !.current = ""]
        [] branch = "plain" -> [st EXCEPT !.current = @ \o char]

\* the for-of loop over the characters of the line, from character i on; at
\* the end of the line an open quote throws
RECURSIVE tokenizeLoop(_, _, _)
tokenizeLoop(line, i, st) ==
  IF st.quote # "" /\ i > Len(line)
  THEN [ok |-> FALSE, error |-> "Unterminated quote in CLI line"]
  ELSE IF i > Len(line) THEN tokenizeEnd(st.tokens, st.current, st.escaping)
  ELSE tokenizeLoop(line, i + 1, tokenizeChar(SubSeq(line, i, i), st))

tokenizeCliLine(line) ==
  tokenizeLoop(line, 1, [tokens |-> << >>, current |-> "", quote |-> "", escaping |-> FALSE])

(***************************************************************************)
(* JSON values.  A value is a record tagged with its JavaScript type.      *)
(***************************************************************************)
Undefined == [t |-> "undefined"]
Null == [t |-> "null"]
Str(s) == [t |-> "string", s |-> s]
Num(n) == [t |-> "number", n |-> n]
Bool(b) == [t |-> "boolean", b |-> b]
Arr(items) == [t |-> "array", items |-> items]
Obj(fields) == [t |-> "object", fields |-> fields]

\* an object without properties, and property assignment obj[key] = value
NoProps == [k \in {} |-> Undefined]
\* an assignment that keeps the value of a key that is already set
SetPropIfAbsent(props, key, value) ==
  [k \in (DOMAIN props) \cup {key} |-> IF k \in DOMAIN props THEN props[k] ELSE value]
SetProp(props, key, value) ==
  [k \in (DOMAIN props) \cup {key} |-> IF k = key THEN value ELSE props[k]]
\* property read obj[key]: undefined when the property is absent
GetProp(props, key) == IF key \in DOMAIN props THEN props[key] ELSE Undefined

\* JavaScript truthiness of a value (the `!x` and `x && ...` tests)
Truthy(v) ==
  CASE v.t = "undefined" -> FALSE
    [] v.t = "null" -> FALSE
    [] v.t = "string" -> v.s # ""
    [] v.t = "number" -> v.n # 0
    [] v.t = "boolean" -> v.b
    [] OTHER -> TRUE

(***************************************************************************)
(* JSON.parse, tabulated over the JSON texts of the modelled input: the    *)
(* parsed value, or the SyntaxError it throws.                             *)
(***************************************************************************)
JSONparse(text) ==
  CASE text = "{\"tool\":\"exit\"}" ->
         [ok |-> TRUE, value |-> Obj(SetProp(NoProps, "tool", Str("exit")))]
    [] text = "{\"tool\":\"quit\"}" ->
         [ok |-> TRUE, value |-> Obj(SetProp(NoProps, "tool", Str("quit")))]
    [] text = "{\"tool\":\" exit\"}" ->
         [ok |-> TRUE, value |-> Obj(SetProp(NoProps, "tool", Str(" exit")))]
    [] text = "{}" -> [ok |-> TRUE, value |-> Obj(NoProps)]
    [] text = "{\"tool\":7}" ->
         [ok |-> TRUE, value |-> Obj(SetProp(NoProps, "tool", Num(7)))]
    [] text = "{\"tool\":\"nosuch\"}" ->
         [ok |-> TRUE, value |-> Obj(SetProp(NoProps, "tool", Str("nosuch")))]
    [] text = "{\"tool\":\"emulate\"}" ->
         [ok |-> TRUE, value |-> Obj(SetProp(NoProps, "tool", Str("emulate")))]
    [] text = "{\"tool\":\"wait_for\"}" ->
         [ok |-> TRUE, value |-> Obj(SetProp(NoProps, "tool", Str("wait_for")))]
    [] text = "{\"tool\":\"wait_for\",\"params\":{\"text\":\"Hello\"}}" ->
         [ok |-> TRUE,
          value |-> Obj(SetProp(SetProp(NoProps, "tool", Str("wait_for")),
                        "params", Obj(SetProp(NoProps, "text", Str("Hello")))))]
    [] text = "{\"tool\":\"take_change_snapshot\"}" ->
         [ok |-> TRUE,
          value |-> Obj(SetProp(NoProps, "tool", Str("take_change_snapshot")))]
    [] text = "{\"tool\":\"take_change_snapshot\",\"params\":{\"replaceBaseline\":false}}" ->
         [ok |-> TRUE,
          value |-> Obj(SetProp(SetProp(NoProps, "tool", Str("take_change_snapshot")),
                        "params",
                        Obj(SetProp(NoProps, "replaceBaseline", Bool(FALSE)))))]
    [] text = "[\"a\",\"b\"]" -> [ok |-> TRUE, value |-> Arr(<<Str("a"), Str("b")>>)]
    [] text = "[]" -> [ok |-> TRUE, value |-> Arr(<<>>)]
    [] text = "[{\"uid\":\"<uid>\",\"value\":\"Example text\"}]" ->
         [ok |-> TRUE,
          value |-> Arr(<< Obj(SetProp(SetProp(NoProps, "uid", Str("<uid>")),
                                       "value", Str("Example text"))) >>)]
    [] text = "null" -> [ok |-> TRUE, value |-> Null]
    [] text = "7" -> [ok |-> TRUE, value |-> Num(7)]
    [] OTHER -> [ok |-> FALSE, error |-> "Unexpected token in JSON"]

(***************************************************************************)
(* Zod schemas: a schema is its _def, a record with typeName and, for the  *)
(* wrappers, innerType (ZodOptional, ZodDefault) or schema (ZodEffects).   *)
(***************************************************************************)
ZodString == [typeName |-> "ZodString", checks |-> {}]
ZodStringTrimMin1 == [typeName |-> "ZodString", checks |-> {"trim", "min"}]
ZodNumber == [typeName |-> "ZodNumber"]
ZodBoolean == [typeName |-> "ZodBoolean"]
ZodEnum(values) == [typeName |-> "ZodEnum", values |-> values]
ZodArray(inner) == [typeName |-> "ZodArray", type |-> inner]
ZodOptional(inner) == [typeName |-> "ZodOptional", innerType |-> inner]
ZodDefault(inner, value) ==
  [typeName |-> "ZodDefault", innerType |-> inner, defaultValue |-> value]
ZodObject == [typeName |-> "ZodObject"]
ZodEffects(inner) == [typeName |-> "ZodEffects", schema |-> inner]

\* timeoutSchema of ToolDefinition: an optional integer passed through a
\* transform
timeoutSchema == [key |-> "timeout", schema |-> ZodEffects(ZodOptional(ZodNumber))]

\* the tool descriptors; schema lists the entries in declaration order
takeChangeSnapshot ==
  [name |-> "take_change_snapshot", category |-> "debugging", conditions |-> {},
   schema |-> << [key |-> "baselineKey", schema |-> ZodOptional(ZodStringTrimMin1)],
                 [key |-> "replaceBaseline", schema |-> ZodOptional(ZodBoolean)],
                 [key |-> "compareTo", schema |-> ZodOptional(ZodStringTrimMin1)] >>]

waitFor ==
  [name |-> "wait_for", category |-> "navigation", conditions |-> {},
   schema |-> << [key |-> "text", schema |-> ZodString], timeoutSchema >>]

emulate ==
  [name |-> "emulate", category |-> "emulation", conditions |-> {},
   schema |-> << [key |-> "networkConditions",
                  schema |-> ZodOptional(ZodEnum({"Slow 3G", "Fast 3G"}))],
                 [key |-> "cpuThrottlingRate", schema |-> ZodOptional(ZodNumber)] >>]

takeSnapshot ==
  [name |-> "take_snapshot", category |-> "debugging", conditions |-> {},
   schema |-> << [key |-> "verbose", schema |-> ZodOptional(ZodBoolean)],
                 [key |-> "filePath", schema |-> ZodOptional(ZodString)] >>]

\* tools of the registry defined outside this file, with the parameters of
\* TOOL_CLI_EXAMPLE_PARAMS
fill ==
  [name |-> "fill", category |-> "input", conditions |-> {},
   schema |-> << [key |-> "uid", schema |-> ZodString],
                 [key |-> "value", schema |-> ZodString] >>]

fillForm ==
  [name |-> "fill_form", category |-> "input", conditions |-> {},
   schema |-> << [key |-> "elements", schema |-> ZodArray(ZodObject)] >>]

resizePage ==
  [name |-> "resize_page", category |-> "emulation", conditions |-> {},
   schema |-> << [key |-> "width", schema |-> ZodNumber],
                 [key |-> "height", schema |-> ZodNumber] >>]

listConsoleMessages ==
  [name |-> "list_console_messages", category |-> "debugging", conditions |-> {},
   schema |-> << [key |-> "pageSize", schema |-> ZodOptional(ZodNumber)],
                 [key |-> "pageIdx", schema |-> ZodOptional(ZodNumber)],
                 [key |-> "includePreservedMessages",
                  schema |-> ZodDefault(ZodBoolean, Bool(FALSE))] >>]

listNetworkRequests ==
  [name |-> "list_network_requests", category |-> "network", conditions |-> {},
   schema |-> << [key |-> "pageSize", schema |-> ZodOptional(ZodNumber)],
                 [key |-> "pageIdx", schema |-> ZodOptional(ZodNumber)],
                 [key |-> "resourceTypes",
                  schema |-> ZodOptional(ZodArray(ZodString))] >>]

performanceStartTrace ==
  [name |-> "performance_start_trace", category |-> "performance", conditions |-> {},
   schema |-> << [key |-> "reload", schema |-> ZodBoolean],
                 [key |-> "autoStop", schema |-> ZodBoolean] >>]

\* the Tool Registry
tools ==
  << takeChangeSnapshot, waitFor, emulate, takeSnapshot, fill, fillForm, resizePage,
     listConsoleMessages, performanceStartTrace, listNetworkRequests >>

\* tools.find(t => t.name === toolName): the index of the tool, 0 for undefined
findTool(toolName) ==
  IF \E i \in DOMAIN tools : tools[i].name = toolName
  THEN CHOOSE i \in DOMAIN tools :
         tools[i].name = toolName /\ \A j \in 1..(i - 1) : tools[j].name # toolName
  ELSE 0

\* toolIsEnabled(args, tool)
toolIsEnabled(a, tool) ==
  IF tool.category = "emulation" /\ a.categoryEmulation = FALSE THEN FALSE
  ELSE IF tool.category = "performance" /\ a.categoryPerformance = FALSE THEN FALSE
  ELSE IF tool.category = "network" /\ a.categoryNetwork = FALSE THEN FALSE
  ELSE IF "computerVision" \in tool.conditions /\ ~a.experimentalVision THEN FALSE
  ELSE TRUE

\* unwrapZodSchema(schema): strips ZodOptional / ZodDefault / ZodEffects
RECURSIVE unwrapLoop(_, _)
unwrapLoop(def, required) ==
  IF def.typeName \in {"ZodOptional", "ZodDefault", "ZodEffects"} THEN
    LET req == IF def.typeName \in {"ZodOptional", "ZodDefault"} THEN FALSE ELSE required
    IN  IF "innerType" \in DOMAIN def THEN unwrapLoop(def.innerType, req)
        ELSE IF "schema" \in DOMAIN def THEN unwrapLoop(def.schema, req)
        ELSE [schema |-> def, required |-> req]
  ELSE [schema |-> def, required |-> required]

unwrapZodSchema(schema) == unwrapLoop(schema, TRUE)

\* schemaIsPositionalFriendly(schema)
schemaIsPositionalFriendly(schema) ==
  unwrapZodSchema(schema).schema.typeName \in {"ZodString", "ZodNumber", "ZodEnum"}

(***************************************************************************)
(* CLI-line parameter decoding.  A function that can throw returns         *)
(* [ok |-> TRUE, value |-> v] or [ok |-> FALSE, error |-> message].        *)
(***************************************************************************)
Ok(v) == [ok |-> TRUE, value |-> v]
Throw(message) == [ok |-> FALSE, error |-> message]

LowerCaseLetters == "abcdefghijklmnopqrstuvwxyz"
UpperCaseLetters == "ABCDEFGHIJKLMNOPQRSTUVWXYZ"
Digits == "0123456789"

\* position of character c in string s, 0 when absent
RECURSIVE indexFrom(_, _, _)
indexFrom(s, c, i) ==
  IF i > Len(s) THEN 0
  ELSE IF SubSeq(s, i, i) = c THEN i
  ELSE indexFrom(s, c, i + 1)

indexIn(s, c) == indexFrom(s, c, 1)

charAt(s, i) == SubSeq(s, i, i)

toUpperCaseChar(c) ==
  IF indexIn(LowerCaseLetters, c) > 0
  THEN charAt(UpperCaseLetters, indexIn(LowerCaseLetters, c)) ELSE c

toLowerCaseChar(c) ==
  IF indexIn(UpperCaseLetters, c) > 0
  THEN charAt(LowerCaseLetters, indexIn(UpperCaseLetters, c)) ELSE c

RECURSIVE toLowerCase(_)
toLowerCase(s) ==
  IF s = "" THEN "" ELSE toLowerCaseChar(Head(s)) \o toLowerCase(Tail(s))

\* the character class [a-zA-Z0-9]
IsAlnum(c) ==
  indexIn(LowerCaseLetters, c) > 0 \/ indexIn(UpperCaseLetters, c) > 0
    \/ indexIn(Digits, c) > 0

\* kebabToCamelCase(key): key.replaceAll(/-([a-zA-Z0-9])/g, c => c.toUpperCase())
RECURSIVE kebabToCamelCase(_)
kebabToCamelCase(key) ==
  IF key = "" THEN ""
  ELSE IF Head(key) = "-" /\ Len(key) >= 2 /\ IsAlnum(charAt(key, 2))
       THEN toUpperCaseChar(charAt(key, 2)) \o kebabToCamelCase(slice(key, 2))
       ELSE Head(key) \o kebabToCamelCase(Tail(key))

\* String.prototype.indexOf(c) for a character c: 0-based, -1 when absent
indexOf(s, c) == indexIn(s, c) - 1

\* value of a string of decimal digits
RECURSIVE digitsValue(_, _)
digitsValue(s, acc) ==
  IF s = "" THEN acc
  ELSE digitsValue(Tail(s), 10 * acc + (indexIn(Digits, Head(s)) - 1))

RECURSIVE allDigits(_)
allDigits(s) == s = "" \/ (indexIn(Digits, Head(s)) > 0 /\ allDigits(Tail(s)))

\* Number(raw), for the decimal integer literals of the modelled input:
\* surrounding whitespace is dropped, the empty string is 0, an optional
\* sign precedes the digits, and any other text is NaN
Number(raw) ==
  LET t == trim(raw)
      body == IF t # "" /\ Head(t) \in {"-", "+"} THEN Tail(t) ELSE t
  IN  IF t = "" THEN [finite |-> TRUE, n |-> 0]
      ELSE IF body # "" /\ allDigits(body)
           THEN [finite |-> TRUE,
                 n |-> IF Head(t) = "-" THEN 0 - digitsValue(body, 0)
                       ELSE digitsValue(body, 0)]
           ELSE [finite |-> FALSE, n |-> 0]

\* parseBooleanLike(value, label)
parseBooleanLike(value, label) ==
  LET normalized == toLowerCase(trim(value))
  IN  IF normalized \in {"true", "1", "yes"} THEN Ok(Bool(TRUE))
      ELSE IF normalized \in {"false", "0", "no"} THEN Ok(Bool(FALSE))
      ELSE Throw("Invalid boolean for " \o label \o ": " \o value)

\* parseJsonObject(arg, label)
parseJsonObject(arg, label) ==
  LET parsed == JSONparse(arg)
  IN  IF ~parsed.ok
      THEN Throw("Failed to parse " \o label \o " as JSON object: " \o parsed.error)
      ELSE IF ~Truthy(parsed.value) \/ parsed.value.t # "object"
      THEN Throw("Failed to parse " \o label \o " as JSON object: " \o label
                   \o " must be a JSON object")
      ELSE Ok(parsed.value)

\* parseJsonArray(arg, label)
parseJsonArray(arg, label) ==
  LET parsed == JSONparse(arg)
  IN  IF ~parsed.ok
      THEN Throw("Failed to parse " \o label \o " as JSON array: " \o parsed.error)
      ELSE IF parsed.value.t # "array"
      THEN Throw("Failed to parse " \o label \o " as JSON array: " \o label
                   \o " must be a JSON array")
      ELSE Ok(parsed.value)

\* the number branch without the test Number.isFinite
coerceNumberUnchecked(key, raw) == Ok(Num(Number(raw).n))

\* the number branch shared by ZodNumber and arrays of ZodNumber
coerceNumber(key, raw) ==
  LET numberValue == Number(raw)
  IN  IF ~numberValue.finite THEN Throw("Invalid number for --" \o key \o ": " \o raw)
      ELSE Ok(Num(numberValue.n))

\* coerceCliValue(schema, key, raw)
coerceCliValue(schema, key, raw) ==
  LET def == unwrapZodSchema(schema).schema
  IN  CASE def.typeName = "ZodString" -> Ok(Str(raw))
        [] def.typeName = "ZodNumber" -> coerceNumber(key, raw)
        [] def.typeName = "ZodBoolean" -> parseBooleanLike(raw, "--" \o key)
        [] def.typeName = "ZodEnum" -> Ok(Str(raw))
        [] def.typeName = "ZodObject" -> parseJsonObject(raw, "--" \o key)
        [] def.typeName = "ZodArray" ->
             LET trimmed == trim(raw)
             IN  IF startsWith(trimmed, "[") THEN parseJsonArray(trimmed, "--" \o key)
                 ELSE IF "type" \notin DOMAIN def
                 THEN Throw("--" \o key \o " must be a JSON array")
                 ELSE LET innerDef == unwrapZodSchema(def.type).schema
                      IN  CASE innerDef.typeName = "ZodString" -> Ok(Str(raw))
                            [] innerDef.typeName = "ZodNumber" -> coerceNumber(key, raw)
                            [] innerDef.typeName = "ZodEnum" -> Ok(Str(raw))
                            [] OTHER -> Throw("--" \o key \o " must be a JSON array")
        [] OTHER -> Ok(Str(raw))

\* assignCliValue without the array branch: every assignment overwrites
assignCliValueOverwrites(params, key, schema, value) == SetProp(params, key, value)

\* assignCliValue(params, key, schema, value): the params after the call
assignCliValue(params, key, schema, value) ==
  IF unwrapZodSchema(schema).schema.typeName # "ZodArray" THEN SetProp(params, key, value)
  ELSE IF value.t = "array" THEN SetProp(params, key, value)
  ELSE LET existing == GetProp(params, key)
       IN  IF ~Truthy(existing) THEN SetProp(params, key, Arr(<<value>>))
           ELSE IF existing.t # "array" THEN SetProp(params, key, Arr(<<existing, value>>))
           ELSE SetProp(params, key, Arr(Append(existing.items, value)))

\* schemaByKey.get(key): the schema of the entry named key, Undefined if none
schemaByKey(tool, key) ==
  IF \E i \in DOMAIN tool.schema : tool.schema[i].key = key
  THEN (tool.schema[CHOOSE i \in DOMAIN tool.schema : tool.schema[i].key = key]).schema
  ELSE Undefined

\* the positional filter without the test of the shape
IsPositionalEntryOfAnyShape(e) == unwrapZodSchema(e.schema).required

IsPositionalEntry(e) ==
  unwrapZodSchema(e.schema).required /\ schemaIsPositionalFriendly(e.schema)

\* positionalKeys: required entries of string, number or enum shape, in order
positionalKeys(tool) ==
  LET kept == SelectSeq(tool.schema, IsPositionalEntry)
  IN  [i \in DOMAIN kept |-> kept[i].key]

\* The body of the for loop of parseToolParamsFromCliTokens, one operator per
\* block.  st holds the loop variables: i, the 1-based index of the token at
\* hand (the tool token is tokens[1]), params, nextPositionalKeyIndex and
\* afterDoubleDash.  Each block ends in a throw or in `continue` with the
\* loop variables for the next pass.
Continue(i, params, nextPositionalKeyIndex, afterDoubleDash) ==
  [ok |-> TRUE, i |-> i, params |-> params,
   nextPositionalKeyIndex |-> nextPositionalKeyIndex, afterDoubleDash |-> afterDoubleDash]

\* a positional token: the next positional key takes the coerced token
positionalAssigned(st, key, coerced) ==
  IF ~coerced.ok THEN coerced
  ELSE Continue(st.i + 1, SetProp(st.params, key, coerced.value),
                st.nextPositionalKeyIndex + 1, st.afterDoubleDash)

positionalKeyed(tokens, st, key, schema) ==
  IF schema = Undefined THEN Throw("Unexpected positional arg for unknown param: " \o key)
  ELSE positionalAssigned(st, key, coerceCliValue(schema, key, tokens[st.i]))

positionalToken(tool, tokens, st, keys) ==
  IF st.nextPositionalKeyIndex >= Len(keys)
  THEN Throw("Unexpected extra arg: " \o tokens[st.i])
  ELSE positionalKeyed(tokens, st, keys[st.nextPositionalKeyIndex + 1],
                       schemaByKey(tool, keys[st.nextPositionalKeyIndex + 1]))

\* --no-<rawKey> assigning true like the plain flag
noFlagKeyedAssignsTrue(st, rawKey, key, schema) ==
  IF schema = Undefined THEN Throw("Unknown param: --" \o rawKey)
  ELSE Continue(st.i + 1, assignCliValue(st.params, key, schema, Bool(TRUE)),
                st.nextPositionalKeyIndex, st.afterDoubleDash)

\* --no-<rawKey>
noFlagKeyed(st, rawKey, key, schema) ==
  IF schema = Undefined THEN Throw("Unknown param: --" \o rawKey)
  ELSE Continue(st.i + 1, assignCliValue(st.params, key, schema, Bool(FALSE)),
                st.nextPositionalKeyIndex, st.afterDoubleDash)

noFlag(tool, st, rawKey, key) == noFlagKeyed(st, rawKey, key, schemaByKey(tool, key))

\* a flag that takes the next positional slot with it
valueFlagCoercedTakesSlot(st, next, key, schema, coerced) ==
  IF ~coerced.ok THEN coerced
  ELSE Continue(next, assignCliValue(st.params, key, schema, coerced.value),
                st.nextPositionalKeyIndex + 1, st.afterDoubleDash)

\* --<rawKey> or --<rawKey>=<rawValue>; rawValue is Undefined without `=`
valueFlagCoerced(st, next, key, schema, coerced) ==
  IF ~coerced.ok THEN coerced
  ELSE Continue(next, assignCliValue(st.params, key, schema, coerced.value),
                st.nextPositionalKeyIndex, st.afterDoubleDash)

\* a flag that takes the following token as its value only when that token
\* does not begin with `--`
valueFlagKeyedStopsAtFlag(tokens, st, rawKey, rawValue, key, schema) ==
  IF schema = Undefined THEN Throw("Unknown param: --" \o rawKey)
  ELSE IF rawValue = Undefined /\ unwrapZodSchema(schema).schema.typeName = "ZodBoolean"
  THEN Continue(st.i + 1, assignCliValue(st.params, key, schema, Bool(TRUE)),
                st.nextPositionalKeyIndex, st.afterDoubleDash)
  ELSE IF rawValue = Undefined
  THEN IF st.i + 1 > Len(tokens) \/ startsWith(tokens[st.i + 1], "--")
       THEN Throw("Missing value for --" \o rawKey)
       ELSE valueFlagCoerced(st, st.i + 2, key, schema,
                             coerceCliValue(schema, key, tokens[st.i + 1]))
  ELSE valueFlagCoerced(st, st.i + 1, key, schema,
                        coerceCliValue(schema, key, rawValue.s))

valueFlagKeyed(tokens, st, rawKey, rawValue, key, schema) ==
  IF schema = Undefined THEN Throw("Unknown param: --" \o rawKey)
  ELSE IF rawValue = Undefined /\ unwrapZodSchema(schema).schema.typeName = "ZodBoolean"
  THEN Continue(st.i + 1, assignCliValue(st.params, key, schema, Bool(TRUE)),
                st.nextPositionalKeyIndex, st.afterDoubleDash)
  ELSE IF rawValue = Undefined
  THEN IF st.i + 1 > Len(tokens) THEN Throw("Missing value for --" \o rawKey)
       ELSE valueFlagCoerced(st, st.i + 2, key, schema,
                             coerceCliValue(schema, key, tokens[st.i + 1]))
  ELSE valueFlagCoerced(st, st.i + 1, key, schema,
                        coerceCliValue(schema, key, rawValue.s))

valueFlagSplit(tool, tokens, st, rawKey, rawValue, key) ==
  valueFlagKeyed(tokens, st, rawKey, rawValue, key, schemaByKey(tool, key))

valueFlag(tool, tokens, st, withoutPrefix, equalsIndex) ==
  IF equalsIndex # -1
  THEN valueFlagSplit(tool, tokens, st, SubSeq(withoutPrefix, 1, equalsIndex),
                      Str(slice(withoutPrefix, equalsIndex + 1)),
                      kebabToCamelCase(SubSeq(withoutPrefix, 1, equalsIndex)))
  ELSE valueFlagSplit(tool, tokens, st, withoutPrefix, Undefined,
                      kebabToCamelCase(withoutPrefix))

\* a token that starts with "--" while flags are still read
flagToken(tool, tokens, st, withoutPrefix) ==
  IF withoutPrefix = ""
  THEN Continue(st.i + 1, st.params, st.nextPositionalKeyIndex, st.afterDoubleDash)
  ELSE IF startsWith(withoutPrefix, "no-")
  THEN noFlag(tool, st, slice(withoutPrefix, 3), kebabToCamelCase(slice(withoutPrefix, 3)))
  ELSE valueFlag(tool, tokens, st, withoutPrefix, indexOf(withoutPrefix, "="))

parseToken(tool, tokens, st) ==
  IF tokens[st.i] = "--"
  THEN Continue(st.i + 1, st.params, st.nextPositionalKeyIndex, TRUE)
  ELSE IF ~st.afterDoubleDash /\ startsWith(tokens[st.i], "--")
  THEN flagToken(tool, tokens, st, slice(tokens[st.i], 2))
  ELSE positionalToken(tool, tokens, st, positionalKeys(tool))

\* the for loop: st holds the loop variables, or the thrown error
RECURSIVE parseTokensLoop(_, _, _)
parseTokensLoop(tool, tokens, st) ==
  IF ~st.ok THEN st
  ELSE IF st.i > Len(tokens) THEN Ok(st.params)
  ELSE parseTokensLoop(tool, tokens, parseToken(tool, tokens, st))

\* parseToolParamsFromCliTokens(tool, tokens)
parseToolParamsFromCliTokens(tool, tokens) ==
  parseTokensLoop(tool, tokens, Continue(2, NoProps, 0, FALSE))

(***************************************************************************)
(* The documentation generator: getCliCommandForTool builds the CLI line   *)
(* of a tool from its schema and its example params.                       *)
(***************************************************************************)
\* String.prototype.endsWith and String.prototype.includes
endsWith(s, p) == Len(s) >= Len(p) /\ SubSeq(s, Len(s) - Len(p) + 1, Len(s)) = p
includes(s, c) == \E i \in 1..Len(s) : SubSeq(s, i, i) = c

\* /\s/.test(value)
hasWhitespace(s) == \E i \in 1..Len(s) : IsWhitespace(SubSeq(s, i, i))

\* String(value) of a non-negative integer
RECURSIVE digitsOf(_)
digitsOf(n) ==
  IF n < 10 THEN SubSeq(Digits, n + 1, n + 1)
  ELSE digitsOf(n \div 10) \o SubSeq(Digits, (n % 10) + 1, (n % 10) + 1)

\* String(value) of a number
StringOfNumber(n) == IF n < 0 THEN "-" \o digitsOf(0 - n) ELSE digitsOf(n)

\* the characters of a JSON string literal: quote, backslash and tab are escaped
RECURSIVE jsonEscape(_)
jsonEscape(s) ==
  IF s = "" THEN ""
  ELSE (CASE Head(s) = "\"" -> "\\\""
          [] Head(s) = "\\" -> "\\\\"
          [] Head(s) = "\t" -> "\\t"
          [] OTHER -> Head(s)) \o jsonEscape(Tail(s))

\* the example element of fill_form, and its JSON text (the properties of an
\* object are written in insertion order, which a record does not keep)
ExampleElement ==
  Obj(SetProp(SetProp(NoProps, "uid", Str("<uid>")), "value", Str("Example text")))

\* JSON.stringify(value)
RECURSIVE JSONstringify(_)
RECURSIVE JSONstringifyItems(_)
JSONstringify(v) ==
  CASE v.t = "string" -> "\"" \o jsonEscape(v.s) \o "\""
    [] v.t = "number" -> StringOfNumber(v.n)
    [] v.t = "boolean" -> IF v.b THEN "true" ELSE "false"
    [] v.t = "array" -> "[" \o JSONstringifyItems(v.items) \o "]"
    [] v = ExampleElement -> "{\"uid\":\"<uid>\",\"value\":\"Example text\"}"
    [] OTHER -> "null"
JSONstringifyItems(items) ==
  IF Len(items) = 0 THEN ""
  ELSE IF Len(items) = 1 THEN JSONstringify(items[1])
  ELSE JSONstringify(items[1]) \o "," \o JSONstringifyItems(Tail(items))

\* TOOL_CLI_EXAMPLE_PARAMS[tool.name] ?? {}
TOOL_CLI_EXAMPLE_PARAMS(name) ==
  CASE name = "emulate" ->
         SetProp(SetProp(NoProps, "networkConditions", Str("Slow 3G")),
                 "cpuThrottlingRate", Num(4))
    [] name = "fill" ->
         SetProp(SetProp(NoProps, "uid", Str("<uid>")), "value", Str("Example text"))
    [] name = "fill_form" -> SetProp(NoProps, "elements", Arr(<< ExampleElement >>))
    [] name = "list_console_messages" ->
         SetProp(SetProp(NoProps, "pageSize", Num(25)), "pageIdx", Num(0))
    [] name = "list_network_requests" ->
         SetProp(SetProp(NoProps, "pageSize", Num(25)), "pageIdx", Num(0))
    [] name = "performance_start_trace" ->
         SetProp(SetProp(NoProps, "reload", Bool(TRUE)), "autoStop", Bool(TRUE))
    [] name = "resize_page" ->
         SetProp(SetProp(NoProps, "width", Num(1280)), "height", Num(720))
    [] name = "take_change_snapshot" -> SetProp(NoProps, "baselineKey", Str("default"))
    [] name = "take_snapshot" -> SetProp(NoProps, "verbose", Bool(FALSE))
    [] name = "wait_for" -> SetProp(NoProps, "text", Str("Example text"))
    [] OTHER -> NoProps

\* the local function unwrap of getCliCommandForTool
RECURSIVE unwrap(_, _)
unwrap(def, required) ==
  IF def.typeName \in {"ZodOptional", "ZodDefault", "ZodEffects"} THEN
    LET req == IF def.typeName \in {"ZodOptional", "ZodDefault"} THEN FALSE ELSE required
    IN  IF "innerType" \in DOMAIN def THEN unwrap(def.innerType, req)
        ELSE IF "schema" \in DOMAIN def THEN unwrap(def.schema, req)
        ELSE [schema |-> def, required |-> req]
  ELSE [schema |-> def, required |-> required]

\* the local function isPositionalFriendly of getCliCommandForTool
isPositionalFriendly(schema) ==
  unwrap(schema, TRUE).schema.typeName \in {"ZodString", "ZodNumber", "ZodEnum"}

\* the local function formatCliArg of getCliCommandForTool
formatCliArg(value) ==
  CASE value.t \in {"null", "undefined"} -> "null"
    [] value.t = "string" ->
         IF startsWith(value.s, "<") /\ endsWith(value.s, ">") THEN value.s
         ELSE IF hasWhitespace(value.s) \/ includes(value.s, "\"")
                   \/ includes(value.s, "'")
         THEN JSONstringify(value)
         ELSE value.s
    [] value.t \in {"number", "boolean"} -> JSONstringify(value)
    [] OTHER -> "'" \o JSONstringify(value) \o "'"

\* the keys of the required, positional-friendly entries, in schema order
docPositionalEntries(tool) ==
  SelectSeq(tool.schema,
            LAMBDA e : unwrap(e.schema, TRUE).required /\ isPositionalFriendly(e.schema))

\* the first loop: one part per positional key
docPositionalParts(tool, exampleParams) ==
  LET kept == docPositionalEntries(tool)
  IN  [i \in DOMAIN kept |->
         IF kept[i].key \in DOMAIN exampleParams
         THEN formatCliArg(exampleParams[kept[i].key])
         ELSE "<" \o kept[i].key \o ">"]

\* the body of the second loop for one schema entry: the parts it pushes
docFlagParts(tool, exampleParams, e) ==
  LET positional == \E i \in DOMAIN docPositionalEntries(tool) :
                      docPositionalEntries(tool)[i].key = e.key
      hasExample == e.key \in DOMAIN exampleParams
      isRequired == unwrap(e.schema, TRUE).required
      value == IF hasExample THEN exampleParams[e.key] ELSE Str("<" \o e.key \o ">")
  IN  IF positional THEN << >>
      ELSE IF ~isRequired /\ ~hasExample THEN << >>
      ELSE IF unwrap(e.schema, TRUE).schema.typeName = "ZodBoolean"
      THEN IF value.t = "boolean"
           THEN << IF value.b THEN "--" \o e.key ELSE "--no-" \o e.key >>
           ELSE << "--" \o e.key, "<true|false>" >>
      ELSE << "--" \o e.key, formatCliArg(value) >>

RECURSIVE docFlagLoop(_, _, _)
docFlagLoop(tool, exampleParams, i) ==
  IF i > Len(tool.schema) THEN << >>
  ELSE docFlagParts(tool, exampleParams, tool.schema[i])
         \o docFlagLoop(tool, exampleParams, i + 1)

\* the parts of the command line before parts.join(' ')
cliCommandParts(tool, exampleParams) ==
  << "chrome_devtools", tool.name >> \o docPositionalParts(tool, exampleParams)
    \o docFlagLoop(tool, exampleParams, 1)

\* Array.prototype.join(' ')
RECURSIVE joinWithSpace(_)
joinWithSpace(parts) ==
  IF Len(parts) = 0 THEN ""
  ELSE IF Len(parts) = 1 THEN parts[1]
  ELSE parts[1] \o " " \o joinWithSpace(Tail(parts))

\* getCliCommandForTool(tool), with the example params as a parameter
getCliCommandForTool(tool, exampleParams) ==
  joinWithSpace(cliCommandParts(tool, exampleParams))

(***************************************************************************)
(* zod.object(tool.schema).parse(rawParams): the parsed params, or the     *)
(* ZodError naming the offending field.  Keys outside the schema are       *)
(* stripped; an absent optional key stays absent.                          *)
(***************************************************************************)
RECURSIVE zodParseValue(_, _, _)
zodParseValue(def, key, v) ==
  CASE def.typeName = "ZodOptional" ->
         IF v = Undefined THEN Ok(Undefined) ELSE zodParseValue(def.innerType, key, v)
    [] def.typeName = "ZodDefault" ->
         zodParseValue(def.innerType, key, IF v = Undefined THEN def.defaultValue ELSE v)
    [] def.typeName = "ZodEffects" -> zodParseValue(def.schema, key, v)
    [] def.typeName = "ZodString" ->
         IF v.t # "string" THEN Throw("ZodError: " \o key \o ": Expected string")
         ELSE LET s == IF "trim" \in def.checks THEN trim(v.s) ELSE v.s
              IN  IF "min" \in def.checks /\ Len(s) < 1
                  THEN Throw("ZodError: " \o key \o ": String must contain at least 1 character(s)")
                  ELSE Ok(Str(s))
    [] def.typeName = "ZodNumber" ->
         IF v.t # "number" THEN Throw("ZodError: " \o key \o ": Expected number") ELSE Ok(v)
    [] def.typeName = "ZodBoolean" ->
         IF v.t # "boolean" THEN Throw("ZodError: " \o key \o ": Expected boolean") ELSE Ok(v)
    [] def.typeName = "ZodEnum" ->
         IF v.t # "string" \/ v.s \notin def.values
         THEN Throw("ZodError: " \o key \o ": Invalid enum value") ELSE Ok(v)
    [] OTHER ->
         IF v.t # "array" THEN Throw("ZodError: " \o key \o ": Expected array") ELSE Ok(v)

RECURSIVE zodParseLoop(_, _, _, _)
zodParseLoop(schema, i, rawParams, parsed) ==
  IF i > Len(schema) THEN Ok(parsed)
  ELSE LET key == schema[i].key
           r == zodParseValue(schema[i].schema, key, GetProp(rawParams, key))
       IN  IF ~r.ok THEN r
           ELSE zodParseLoop(schema, i + 1, rawParams,
                             IF r.value = Undefined THEN parsed
                             ELSE SetProp(parsed, key, r.value))

zodParse(tool, rawParams) == zodParseLoop(tool.schema, 1, rawParams, NoProps)

(***************************************************************************)
(* Accessibility snapshots and the diff engine.  A normalized snapshot is  *)
(* a sequence of nodes [path, role, name, attributes] in traversal order.  *)
(***************************************************************************)
AXNode(path, role, name) ==
  [path |-> path, role |-> role, name |-> name, attributes |-> NoProps]

PageBlank == << AXNode("0", "RootWebArea", "") >>
PageHello == << AXNode("0", "RootWebArea", ""), AXNode("0.0", "heading", "Hello") >>

\* the page contents the browser can show
Pages == {PageBlank, PageHello}

\* the text query behind waitForTextOnPage: some node is named `text`
PageHasText(p, text) == \E i \in DOMAIN p : p[i].name = text

PathsOf(snap) == {snap[i].path : i \in DOMAIN snap}
NodeAt(snap, path) == snap[CHOOSE i \in DOMAIN snap : snap[i].path = path]

\* the field deltas with the attributes compared by identity: the attribute
\* objects of two captures are never the same object
nodeChangesAttributesByIdentity(before, after) ==
  (IF before.role # after.role
   THEN << [property |-> "role", before |-> Str(before.role), after |-> Str(after.role)] >>
   ELSE << >>)
    \o (IF before.name # after.name
        THEN << [property |-> "name", before |-> Str(before.name),
                 after |-> Str(after.name)] >>
        ELSE << >>)
    \o << [property |-> "attributes", before |-> Obj(before.attributes),
            after |-> Obj(after.attributes)] >>

\* the field deltas of two nodes at the same path
nodeChanges(before, after) ==
  LET roleChange == IF before.role # after.role
                    THEN << [property |-> "role", before |-> Str(before.role),
                             after |-> Str(after.role)] >>
                    ELSE << >>
      nameChange == IF before.name # after.name
                    THEN << [property |-> "name", before |-> Str(before.name),
                             after |-> Str(after.name)] >>
                    ELSE << >>
      attrChange == IF before.attributes # after.attributes
                    THEN << [property |-> "attributes", before |-> Obj(before.attributes),
                             after |-> Obj(after.attributes)] >>
                    ELSE << >>
  IN  roleChange \o nameChange \o attrChange

\* a diff whose removed list is taken from the new snapshot
diffSnapshotsRemovedFromNew(old, new) ==
  [added |-> SelectSeq(new, LAMBDA n : n.path \notin PathsOf(old)),
   removed |-> SelectSeq(new, LAMBDA n : n.path \notin PathsOf(old)),
   changed |-> << >>]

\* diffSnapshots(old, new)
diffSnapshots(old, new) ==
  LET added == SelectSeq(new, LAMBDA n : n.path \notin PathsOf(old))
      removed == SelectSeq(old, LAMBDA n : n.path \notin PathsOf(new))
      both == SelectSeq(new, LAMBDA n : n.path \in PathsOf(old)
                                          /\ nodeChanges(NodeAt(old, n.path), n) # << >>)
  IN  [added |-> added, removed |-> removed,
       changed |-> [i \in DOMAIN both |->
                      [path |-> both[i].path, role |-> both[i].role, name |-> both[i].name,
                       changes |-> nodeChanges(NodeAt(old, both[i].path), both[i])]]]

\* a test that forgets the changed list
hasSnapshotChangesWithoutChanged(diff) == Len(diff.added) > 0 \/ Len(diff.removed) > 0

\* hasSnapshotChanges(diff)
hasSnapshotChanges(diff) ==
  Len(diff.added) > 0 \/ Len(diff.removed) > 0 \/ Len(diff.changed) > 0

(***************************************************************************)
(* The session command: state.                                             *)
(***************************************************************************)
VARIABLES
  args,        \* the yargs options of the process
  pc,          \* position of the session handler
  browser,     \* "none", "open", "closed" (browser.close()), "disconnected"
  context,     \* McpContext: "none", "live", "disposed"
  baselines,   \* the Baseline Store of the context: key -> normalized snapshot
  page,        \* what the selected page shows
  connected,   \* the connection to the browser is alive
  mutexHolder, \* toolMutex: 0 when free, else the line number of the holder
  rl,          \* the readline interface: "none", "open", "closed"
  rlBuffer,    \* lines readline has read from stdin, not yet taken by the loop
  delivered,   \* number of lines stdin has delivered
  stdinEnded,  \* stdin reached end-of-input
  cur,         \* the command of the current loop iteration
  handlers,    \* activations of tool handlers
  out,         \* what was written to stdout and stderr, in order
  exc,         \* message of the exception that is propagating, "" if none
  exitCode,    \* process.exitCode
  calls,       \* how often each lifecycle operation was called
  consumed,    \* history: the lines the loop has taken, in order
  trace,       \* history: begin and end of every handler activation
  snapshotLog, \* history: what every completed takeChangeSnapshot.handler saw and said
  diffLog      \* history: the direct calls of the diff engine and their results

vars == << args, pc, browser, context, baselines, page, connected, mutexHolder, rl,
           rlBuffer, delivered, stdinEnded, cur, handlers, out, exc, exitCode, calls,
           consumed, trace, snapshotLog, diffLog >>

\* the input lines stdin can deliver
InputLines ==
  { "", "exit", "{\"tool\":\"quit\"}", "nosuch", "{\"tool\":\"nosuch\"}",
    "{\"tool\":\"wait_for\"}", "wait-for Hello", "take_change_snapshot", "emulate" }

\* the process options: how the browser is reached, the output format and
\* the emulation category switch
ArgsSet ==
  { [browserUrl |-> b, wsEndpoint |-> w, autoConnect |-> c, format |-> f,
     categoryEmulation |-> e, categoryPerformance |-> TRUE, categoryNetwork |-> TRUE,
     experimentalVision |-> FALSE] :
      b \in {Undefined, Str("http://127.0.0.1:9222")},
      w \in {Undefined, Str("ws://127.0.0.1:9222/devtools")},
      c \in {Undefined, Bool(TRUE)},
      f \in {"json", "text"},
      e \in BOOLEAN }

NoCommand == [lineNo |-> 0, toolName |-> "", tool |-> 0, rawParams |-> NoProps,
              response |-> << >>, includeSnapshot |-> FALSE]

NoCalls == [launch |-> 0, connect |-> 0, context |-> 0, detect |-> 0, teardown |-> 0,
            close |-> 0, disconnect |-> 0]

Init ==
  /\ args \in ArgsSet
  /\ pc = "launch"
  /\ browser = "none"
  /\ context = "none"
  /\ baselines = NoProps
  /\ page = PageBlank
  /\ connected = FALSE
  /\ mutexHolder = 0
  /\ rl = "none"
  /\ rlBuffer = << >>
  /\ delivered = 0
  /\ stdinEnded = FALSE
  /\ cur = NoCommand
  /\ handlers = {}
  /\ out = << >>
  /\ exc = ""
  /\ exitCode = 0
  /\ calls = NoCalls
  /\ consumed = << >>
  /\ trace = << >>
  /\ snapshotLog = << >>
  /\ diffLog = << >>

(***************************************************************************)
(* Output.                                                                 *)
(***************************************************************************)
\* writeToolError(toolName, errorText): what it writes
writeToolError(format, toolName, errorText) ==
  IF format = "json"
  THEN << [stream |-> "stdout", kind |-> "error",
           json |-> [tool |-> toolName, isError |-> TRUE, error |-> errorText]] >>
  ELSE << [stream |-> "stderr", kind |-> "error",
           text |-> toolName \o ": " \o errorText] >>

\* writeToolSuccess(toolName, content): one JSON line, or one line per item
writeToolSuccess(format, toolName, content) ==
  IF format = "json"
  THEN << [stream |-> "stdout", kind |-> "success",
           json |-> [tool |-> toolName, content |-> content]] >>
  ELSE [i \in DOMAIN content |->
          [stream |-> "stdout", kind |-> "success", text |-> content[i].text]]

(***************************************************************************)
(* Decoding of one line, from the top of the loop body to the guard:       *)
(* "skip" (continue without output), "error" (report and continue),        *)
(* "break" (exit sentinel) or "command".                                   *)
(***************************************************************************)
Skip == [kind |-> "skip"]
Break == [kind |-> "break"]
DecodeError(label, message) == [kind |-> "error", tool |-> label, message |-> message]
Command(toolName, rawParams) ==
  [kind |-> "command", toolName |-> toolName, rawParams |-> rawParams]

\* the exit/quit test with `quit` forgotten
isExitSentinelExitOnly(v) == v = Str("exit")

\* the exit/quit test of both input forms
isExitSentinel(v) == v = Str("exit") \/ v = Str("quit")

\* the JSON branch with the tool name taken as written, not trimmed
decodeJsonLineUntrimmed(trimmed) ==
  LET parsed == JSONparse(trimmed)
      message == parsed.value
      maybeTool == GetProp(message.fields, "tool")
      maybeParams == GetProp(message.fields, "params")
  IN  IF ~parsed.ok THEN DecodeError("session", parsed.error)
      ELSE IF ~Truthy(message) \/ message.t # "object"
      THEN DecodeError("session", "Expected an object message")
      ELSE IF isExitSentinel(maybeTool) THEN Break
      ELSE IF maybeTool.t # "string" \/ trim(maybeTool.s) = ""
      THEN DecodeError("session", "Missing required field: \"tool\" (string)")
      ELSE Command(maybeTool.s,
                   IF Truthy(maybeParams) /\ maybeParams.t = "object"
                   THEN maybeParams.fields ELSE NoProps)

\* the JSON branch
decodeJsonLine(trimmed) ==
  LET parsed == JSONparse(trimmed)
      message == parsed.value
      maybeTool == GetProp(message.fields, "tool")
      maybeParams == GetProp(message.fields, "params")
  IN  IF ~parsed.ok THEN DecodeError("session", parsed.error)
      ELSE IF ~Truthy(message) \/ message.t # "object"
      THEN DecodeError("session", "Expected an object message")
      ELSE IF isExitSentinel(maybeTool) THEN Break
      ELSE IF maybeTool.t # "string" \/ trim(maybeTool.s) = ""
      THEN DecodeError("session", "Missing required field: \"tool\" (string)")
      ELSE Command(trim(maybeTool.s),
                   IF Truthy(maybeParams) /\ maybeParams.t = "object"
                   THEN maybeParams.fields ELSE NoProps)

\* the CLI branch, one operator per step; each takes what the steps before
\* it have computed
cliParamsDecoded(toolName, rawParams) ==
  IF ~rawParams.ok THEN DecodeError(toolName, rawParams.error)
  ELSE Command(toolName, rawParams.value)

\* the CLI branch passing over an unknown tool without a report
cliToolFoundOrSkipped(commandTokens, toolName, tool) ==
  IF tool = 0 THEN Skip
  ELSE cliParamsDecoded(toolName,
                        parseToolParamsFromCliTokens(tools[tool], commandTokens))

cliToolFound(commandTokens, toolName, tool) ==
  IF tool = 0 THEN DecodeError("session", "Unknown tool: " \o toolName)
  ELSE cliParamsDecoded(toolName,
                        parseToolParamsFromCliTokens(tools[tool], commandTokens))

cliToolNamed(commandTokens, toolName) ==
  cliToolFound(commandTokens, toolName, findTool(toolName))

cliCommandTokens(commandTokens) ==
  IF Len(commandTokens) = 0 THEN Skip
  ELSE IF isExitSentinel(Str(commandTokens[1])) THEN Break
  ELSE cliToolNamed(commandTokens, replaceAll(commandTokens[1], "-", "_"))

cliTokenized(tokenized) ==
  IF ~tokenized.ok THEN DecodeError("session", tokenized.error)
  ELSE IF Len(tokenized.tokens) = 0 THEN Skip
  ELSE cliCommandTokens(
         IF tokenized.tokens[1]
              \in {"chrome_devtools", "chrome-devtools-cli", "chrome-devtools-mcp"}
         THEN Tail(tokenized.tokens) ELSE tokenized.tokens)

decodeCliLine(trimmed) == cliTokenized(tokenizeCliLine(trimmed))

\* the second tool lookup with the enabled check left out
lookupToolWithoutEnabledCheck(decoded, a, tool) ==
  IF tool = 0
  THEN DecodeError(decoded.toolName, "Unknown tool: " \o decoded.toolName)
  ELSE decoded

\* the second tool lookup and the enabled check, for a decoded command
lookupTool(decoded, a, tool) ==
  IF tool = 0
  THEN DecodeError(decoded.toolName, "Unknown tool: " \o decoded.toolName)
  ELSE IF ~toolIsEnabled(a, tools[tool])
  THEN DecodeError(decoded.toolName,
                   "Tool " \o decoded.toolName
                     \o " is disabled by category or experimental flags.")
  ELSE decoded

lineDecoded(decoded, a) ==
  IF decoded.kind # "command" THEN decoded
  ELSE lookupTool(decoded, a, findTool(decoded.toolName))

\* the skip test with the comment test left out
decodeTrimmedWithoutComments(trimmed, a) ==
  IF trimmed = "" THEN Skip
  ELSE lineDecoded(IF startsWith(trimmed, "{") THEN decodeJsonLine(trimmed)
                   ELSE decodeCliLine(trimmed), a)

decodeTrimmed(trimmed, a) ==
  IF trimmed = "" \/ startsWith(trimmed, "#") THEN Skip
  ELSE lineDecoded(IF startsWith(trimmed, "{") THEN decodeJsonLine(trimmed)
                   ELSE decodeCliLine(trimmed), a)

\* the loop body up to `await toolMutex.acquire()`
decodeLine(line, a) == decodeTrimmed(trim(line), a)

(***************************************************************************)
(* The JSON-only session of cliApp.ts: every line that is not blank is     *)
(* parsed as JSON, and an error is written with writeJsonLine.             *)
(***************************************************************************)
\* a line the JSON-only loop answers with writeJsonLine(obj) and `continue`
JsonError(obj) == [kind |-> "error", json |-> obj]

\* the JSON-only loop body from JSON.parse to `await toolMutex.acquire()`;
\* rawParams, which the source reads from msg after the guard, is decoded here
jsonOnlyDecodeTrimmed(trimmed, a) ==
  LET parsed == JSONparse(trimmed)
      message == parsed.value
      maybeTool == GetProp(message.fields, "tool")
      maybeParams == GetProp(message.fields, "params")
      toolName == trim(maybeTool.s)
      tool == findTool(toolName)
  IN  IF ~parsed.ok THEN JsonError([isError |-> TRUE, error |-> parsed.error])
      ELSE IF ~Truthy(message) \/ message.t # "object"
      THEN JsonError([isError |-> TRUE, error |-> "Expected an object message"])
      ELSE IF maybeTool = Str("exit") \/ maybeTool = Str("quit") THEN Break
      ELSE IF maybeTool.t # "string" \/ trim(maybeTool.s) = ""
      THEN JsonError([isError |-> TRUE,
                      error |-> "Missing required field: \"tool\" (string)"])
      ELSE IF tool = 0
      THEN JsonError([tool |-> toolName, isError |-> TRUE,
                      error |-> "Unknown tool: " \o toolName])
      ELSE IF ~toolIsEnabled(a, tools[tool])
      THEN JsonError([tool |-> toolName, isError |-> TRUE,
                      error |-> "Tool " \o toolName
                                  \o " is disabled by category or experimental flags."])
      ELSE Command(toolName,
                   IF Truthy(maybeParams) /\ maybeParams.t = "object"
                   THEN maybeParams.fields ELSE NoProps)

\* the JSON-only loop body up to `await toolMutex.acquire()`
jsonOnlyDecodeLine(line, a) ==
  IF trim(line) = "" THEN Skip ELSE jsonOnlyDecodeTrimmed(trim(line), a)

(***************************************************************************)
(* Tool handlers.  A handler is called with the parsed params, runs up to  *)
(* its first await on the browser, and completes in a later step, either   *)
(* returning (with the response lines it appended) or throwing.            *)
(***************************************************************************)
\* params.key?.trim() || fallback, for an optional string parameter
stringParamOr(params, key, fallback) ==
  LET v == GetProp(params, key)
  IN  IF v = Undefined THEN fallback
      ELSE IF trim(v.s) = "" THEN fallback ELSE trim(v.s)

\* formatNodeSummary(node) and formatChangeSummary(change)
formatNodeSummary(node) ==
  (IF node.role # "" THEN "[" \o node.role \o "]" ELSE "[unknown role]")
    \o (IF node.name # "" THEN " \"" \o node.name \o "\"" ELSE "")
    \o " at path " \o node.path

formatChangeSummary(change) ==
  (IF change.role # "" THEN "[" \o change.role \o "]" ELSE "[unknown role]")
    \o (IF change.name # "" THEN " \"" \o change.name \o "\"" ELSE "")
    \o " at path " \o change.path

\* formatDiffValue(value); the objects of the modelled pages are empty
formatDiffValue(value) ==
  CASE value.t \in {"null", "undefined"} -> value.t
    [] value.t = "string" -> "\"" \o value.s \o "\""
    [] value.t = "number" -> ToString(value.n)
    [] value.t = "boolean" -> (IF value.b THEN "true" ELSE "false")
    [] OTHER -> "{}"

\* the lines of the `## Changed` section
RECURSIVE changedLines(_)
changedLines(changed) ==
  IF changed = << >> THEN << >>
  ELSE << "- " \o formatChangeSummary(Head(changed)) >>
         \o [i \in DOMAIN Head(changed).changes |->
               "  - " \o Head(changed).changes[i].property \o ": "
                 \o formatDiffValue(Head(changed).changes[i].before) \o " -> "
                 \o formatDiffValue(Head(changed).changes[i].after)]
         \o changedLines(Tail(changed))

\* a diff report that leaves out the line of the counts
diffLinesWithoutCounts(compareKey, diff) ==
  << "Accessibility changes compared to baseline \"" \o compareKey \o "\":" >>
    \o (IF Len(diff.added) > 0 THEN << "## Added" >> ELSE << >>)
    \o (IF Len(diff.removed) > 0 THEN << "## Removed" >> ELSE << >>)
    \o (IF Len(diff.changed) > 0 THEN << "## Changed" >> ELSE << >>)

\* the response lines that report a diff with changes
diffLines(compareKey, diff) ==
  << "Accessibility changes compared to baseline \"" \o compareKey \o "\":",
     "Added nodes: " \o ToString(Len(diff.added)) \o ", Removed nodes: "
       \o ToString(Len(diff.removed)) \o ", Changed nodes: "
       \o ToString(Len(diff.changed)) >>
    \o (IF Len(diff.added) > 0
        THEN << "## Added" >>
               \o [i \in DOMAIN diff.added |-> "- " \o formatNodeSummary(diff.added[i])]
        ELSE << >>)
    \o (IF Len(diff.removed) > 0
        THEN << "## Removed" >>
               \o [i \in DOMAIN diff.removed |-> "- " \o formatNodeSummary(diff.removed[i])]
        ELSE << >>)
    \o (IF Len(diff.changed) > 0
        THEN << "## Changed" >> \o changedLines(diff.changed) ELSE << >>)

\* context.getTextSnapshot() when no snapshot could be captured
NoSnapshot == << >>

\* the comparison without the final replacement of the baseline
comparedKeepsBaseline(baselineKey, compareKey, replaceBaseline, normalizedSnapshot, store, diff) ==
  [lines |->
     IF ~hasSnapshotChanges(diff)
     THEN << "No accessibility changes compared to baseline \"" \o compareKey \o "\"." >>
     ELSE diffLines(compareKey, diff),
   store |-> store]

\* the comparison that replaces the baseline whatever the caller asked for
comparedAlwaysReplaces(baselineKey, compareKey, replaceBaseline, normalizedSnapshot, store, diff) ==
  [lines |->
     IF ~hasSnapshotChanges(diff)
     THEN << "No accessibility changes compared to baseline \"" \o compareKey \o "\"." >>
     ELSE diffLines(compareKey, diff),
   store |-> SetProp(store, baselineKey, normalizedSnapshot)]

\* the comparison that replaces the baseline it compared with
comparedReplacesComparedKey(baselineKey, compareKey, replaceBaseline, normalizedSnapshot, store, diff) ==
  [lines |->
     IF ~hasSnapshotChanges(diff)
     THEN << "No accessibility changes compared to baseline \"" \o compareKey \o "\"." >>
     ELSE diffLines(compareKey, diff),
   store |-> IF replaceBaseline
             THEN SetProp(store, compareKey, normalizedSnapshot) ELSE store]

\* the response after the baseline was compared with the snapshot
compared(baselineKey, compareKey, replaceBaseline, normalizedSnapshot, store, diff) ==
  [lines |->
     IF ~hasSnapshotChanges(diff)
     THEN << "No accessibility changes compared to baseline \"" \o compareKey \o "\"." >>
     ELSE diffLines(compareKey, diff),
   store |-> IF replaceBaseline
             THEN SetProp(store, baselineKey, normalizedSnapshot) ELSE store]

\* the handler reporting a created baseline that it does not store
snapshotTakenNotStored(baselineKey, compareKey, replaceBaseline, snapshot, store) ==
  IF snapshot = NoSnapshot
  THEN [lines |-> << "Unable to capture accessibility snapshot for the current page." >>,
        store |-> store]
  ELSE IF compareKey \notin DOMAIN store
  THEN [lines |-> << "No baseline found for key \"" \o compareKey
                       \o "\". Created a baseline with the current snapshot." >>,
        store |-> store]
  ELSE compared(baselineKey, compareKey, replaceBaseline, snapshot, store,
                diffSnapshots(store[compareKey], snapshot))

\* the handler storing a created baseline under the key it compared with
snapshotTakenUnderCompareKey(baselineKey, compareKey, replaceBaseline, snapshot, store) ==
  IF snapshot = NoSnapshot
  THEN [lines |-> << "Unable to capture accessibility snapshot for the current page." >>,
        store |-> store]
  ELSE IF compareKey \notin DOMAIN store
  THEN [lines |-> << "No baseline found for key \"" \o compareKey
                       \o "\". Created a baseline with the current snapshot." >>,
        store |-> SetProp(store, compareKey, snapshot)]
  ELSE compared(baselineKey, compareKey, replaceBaseline, snapshot, store,
                diffSnapshots(store[compareKey], snapshot))

\* the handler once the snapshot is there and the keys are known
snapshotTaken(baselineKey, compareKey, replaceBaseline, snapshot, store) ==
  IF snapshot = NoSnapshot
  THEN [lines |-> << "Unable to capture accessibility snapshot for the current page." >>,
        store |-> store]
  ELSE IF compareKey \notin DOMAIN store
  THEN [lines |-> << IF compareKey = baselineKey
                     THEN "No baseline found for key \"" \o compareKey
                            \o "\". Created a baseline with the current snapshot."
                     ELSE "No baseline found for key \"" \o compareKey
                            \o "\". Created a baseline under \"" \o baselineKey
                            \o "\" with the current snapshot." >>,
        store |-> SetProp(store, baselineKey, snapshot)]
  ELSE compared(baselineKey, compareKey, replaceBaseline, snapshot, store,
                diffSnapshots(store[compareKey], snapshot))

\* the defaults with the replacement of the baseline as an opt-in
keysKnownReplaceOptIn(params, baselineKey, snapshot, store) ==
  snapshotTaken(baselineKey, stringParamOr(params, "compareTo", baselineKey),
                IF GetProp(params, "replaceBaseline") = Undefined THEN FALSE
                ELSE GetProp(params, "replaceBaseline").b,
                snapshot, store)

keysKnown(params, baselineKey, snapshot, store) ==
  snapshotTaken(baselineKey, stringParamOr(params, "compareTo", baselineKey),
                IF GetProp(params, "replaceBaseline") = Undefined THEN TRUE
                ELSE GetProp(params, "replaceBaseline").b,
                snapshot, store)

\* takeChangeSnapshot.handler with the snapshot the context returns: the
\* response lines and the Baseline Store it leaves
takeChangeSnapshotHandler(params, snapshot, store) ==
  keysKnown(params, stringParamOr(params, "baselineKey", "default"), snapshot, store)

\* the activation of a handler for the command of line id
Activation(id, toolName, params) ==
  [id |-> id, tool |-> toolName, params |-> params, status |-> "running",
   lines |-> << >>, includeSnapshot |-> FALSE, error |-> ""]

\* the activations that were called and have not completed
InFlight == {h \in handlers : h.status = "running"}

\* the activation of a handler that has returned; r is the result of
\* takeChangeSnapshot.handler, the other handlers are waitFor.handler and
\* handlers that append nothing
handlerDone(h, r) ==
  CASE h.tool = "take_change_snapshot" ->
         [h EXCEPT !.status = "returned", !.lines = r.lines]
    [] h.tool = "wait_for" ->
         [h EXCEPT !.status = "returned",
                   !.lines = << "Element with text \"" \o h.params["text"].s
                                  \o "\" found." >>,
                   !.includeSnapshot = TRUE]
    [] h.tool = "take_snapshot" ->
         [h EXCEPT !.status = "returned", !.includeSnapshot = TRUE]
    [] OTHER -> [h EXCEPT !.status = "returned"]

\* a running handler gets its answer from the browser and returns
HandlerReturns(h) ==
  /\ h \in handlers /\ h.status = "running"
  /\ connected
  /\ h.tool = "wait_for" => PageHasText(page, h.params["text"].s)
  /\ \E snapshot \in {page, NoSnapshot} :
       \E r \in {takeChangeSnapshotHandler(h.params, snapshot, baselines)} :
         /\ handlers' = (handlers \ {h}) \cup {handlerDone(h, r)}
         /\ baselines' = IF h.tool = "take_change_snapshot" THEN r.store ELSE baselines
         /\ snapshotLog' = IF h.tool = "take_change_snapshot"
                           THEN Append(snapshotLog,
                                       [id |-> h.id, params |-> h.params,
                                        snapshot |-> snapshot, store |-> baselines,
                                        lines |-> r.lines])
                           ELSE snapshotLog
  /\ trace' = Append(trace, [ev |-> "end", id |-> h.id])
  /\ UNCHANGED << args, pc, browser, context, page, connected, mutexHolder, rl, rlBuffer,
                  delivered, stdinEnded, cur, out, exc, exitCode, calls, consumed,
                  diffLog >>

\* a running handler fails: the connection is lost, or wait_for times out
\* because the text is not on the page
HandlerThrows(h) ==
  /\ h \in handlers /\ h.status = "running"
  /\ \/ ~connected
     \/ h.tool = "wait_for" /\ ~PageHasText(page, h.params["text"].s)
  /\ handlers' = (handlers \ {h}) \cup
       {[h EXCEPT !.status = "thrown",
                  !.error = IF ~connected THEN "Protocol error: Connection closed."
                            ELSE "Timed out after waiting"]}
  /\ trace' = Append(trace, [ev |-> "end", id |-> h.id])
  /\ UNCHANGED << args, pc, browser, context, baselines, page, connected, mutexHolder, rl,
                  rlBuffer, delivered, stdinEnded, cur, out, exc, exitCode, calls,
                  consumed, snapshotLog, diffLog >>

(***************************************************************************)
(* The session handler: start-up.                                          *)
(***************************************************************************)
\* an escaping exception with the finally blocks missing
onThrowNoFinally(at) == "main_catch"

\* where control goes when an exception escapes at a position: the nested
\* try/finally blocks run rl.close() and the teardown, and outside of them
\* the exception goes straight to the catch around main()
onThrow(at) ==
  CASE at = "loop" -> "rlclose"
    [] at = "init" -> "teardown"
    [] OTHER -> "main_catch"

\* the browser is reached by connecting when one of the three options is set
connectsToBrowser(a) ==
  Truthy(a.browserUrl) \/ Truthy(a.wsEndpoint) \/ Truthy(a.autoConnect)

\* shouldCloseBrowser with the autoConnect option forgotten
shouldCloseBrowserNoAutoConnect(a) ==
  ~Truthy(a.browserUrl) /\ ~Truthy(a.wsEndpoint)

\* const shouldCloseBrowser
shouldCloseBrowser(a) ==
  ~Truthy(a.browserUrl) /\ ~Truthy(a.wsEndpoint) /\ ~Truthy(a.autoConnect)

\* ensureBrowserConnected / ensureBrowserLaunched succeeds
LaunchOrConnect ==
  /\ pc = "launch"
  /\ browser' = "open"
  /\ connected' = TRUE
  /\ calls' = IF connectsToBrowser(args) THEN [calls EXCEPT !.connect = @ + 1]
              ELSE [calls EXCEPT !.launch = @ + 1]
  /\ pc' = "context"
  /\ UNCHANGED << args, context, baselines, page, mutexHolder, rl, rlBuffer, delivered,
                  stdinEnded, cur, handlers, out, exc, exitCode, consumed, trace,
                  snapshotLog, diffLog >>

\* ensureBrowserConnected / ensureBrowserLaunched throws
LaunchOrConnectFails ==
  /\ pc = "launch"
  /\ exc' = "Could not launch or connect to the browser"
  /\ pc' = onThrow("launch")
  /\ UNCHANGED << args, browser, context, baselines, page, connected, mutexHolder, rl,
                  rlBuffer, delivered, stdinEnded, cur, handlers, out, exitCode, calls,
                  consumed, trace, snapshotLog, diffLog >>

\* McpContext.from: the context starts with an empty Baseline Store
CreateContext ==
  /\ pc = "context"
  /\ context' = "live"
  /\ baselines' = NoProps
  /\ calls' = [calls EXCEPT !.context = @ + 1]
  /\ pc' = "init"
  /\ UNCHANGED << args, browser, page, connected, mutexHolder, rl, rlBuffer, delivered,
                  stdinEnded, cur, handlers, out, exc, exitCode, consumed, trace,
                  snapshotLog, diffLog >>

\* loadIssueDescriptions and detectOpenDevToolsWindows succeed; readline is
\* created on stdin
InitialDetection ==
  /\ pc = "init"
  /\ calls' = [calls EXCEPT !.detect = @ + 1]
  /\ rl' = "open"
  /\ pc' = "loop"
  /\ UNCHANGED << args, browser, context, baselines, page, connected, mutexHolder,
                  rlBuffer, delivered, stdinEnded, cur, handlers, out, exc, exitCode,
                  consumed, trace, snapshotLog, diffLog >>

\* the initial detection placed before the outer try: its error passes the
\* teardown by
InitialDetectionFailsBeforeTry ==
  /\ pc = "init"
  /\ calls' = [calls EXCEPT !.detect = @ + 1]
  /\ exc' = "Initial detection failed"
  /\ pc' = "main_catch"
  /\ UNCHANGED << args, browser, context, baselines, page, connected, mutexHolder, rl,
                  rlBuffer, delivered, stdinEnded, cur, handlers, out, exitCode,
                  consumed, trace, snapshotLog, diffLog >>

\* loadIssueDescriptions or detectOpenDevToolsWindows throws
InitialDetectionFails ==
  /\ pc = "init"
  /\ calls' = [calls EXCEPT !.detect = @ + 1]
  /\ exc' = "Initial detection failed"
  /\ pc' = onThrow("init")
  /\ UNCHANGED << args, browser, context, baselines, page, connected, mutexHolder, rl,
                  rlBuffer, delivered, stdinEnded, cur, handlers, out, exitCode,
                  consumed, trace, snapshotLog, diffLog >>

(***************************************************************************)
(* The environment: stdin, the page and the connection.                    *)
(***************************************************************************)
\* stdin delivers a line; readline queues it for the loop
StdinDelivers(line, max) ==
  /\ rl = "open" /\ ~stdinEnded /\ delivered < max
  /\ rlBuffer' = Append(rlBuffer, line)
  /\ delivered' = delivered + 1
  /\ UNCHANGED << args, pc, browser, context, baselines, page, connected, mutexHolder, rl,
                  stdinEnded, cur, handlers, out, exc, exitCode, calls, consumed, trace,
                  snapshotLog, diffLog >>

StdinLine(line) == StdinDelivers(line, MaxLines)

\* stdin reaches end-of-input
StdinEnd ==
  /\ rl = "open" /\ ~stdinEnded
  /\ stdinEnded' = TRUE
  /\ UNCHANGED << args, pc, browser, context, baselines, page, connected, mutexHolder, rl,
                  rlBuffer, delivered, cur, handlers, out, exc, exitCode, calls, consumed,
                  trace, snapshotLog, diffLog >>

\* the page changes what it shows
PageMutates(p) ==
  /\ browser = "open" /\ connected /\ rl = "open"
  /\ p # page
  /\ page' = p
  /\ UNCHANGED << args, pc, browser, context, baselines, connected, mutexHolder, rl,
                  rlBuffer, delivered, stdinEnded, cur, handlers, out, exc, exitCode,
                  calls, consumed, trace, snapshotLog, diffLog >>

\* the connection to the browser is lost
ConnectionLost ==
  /\ browser = "open" /\ connected /\ rl = "open"
  /\ connected' = FALSE
  /\ UNCHANGED << args, pc, browser, context, baselines, page, mutexHolder, rl, rlBuffer,
                  delivered, stdinEnded, cur, handlers, out, exc, exitCode, calls,
                  consumed, trace, snapshotLog, diffLog >>

\* McpContext.from throws: no try block is open yet
CreateContextFails ==
  /\ pc = "context"
  /\ exc' = "Could not create the context"
  /\ pc' = onThrow("context")
  /\ UNCHANGED << args, browser, context, baselines, page, connected, mutexHolder, rl,
                  rlBuffer, delivered, stdinEnded, cur, handlers, out, exitCode, calls,
                  consumed, trace, snapshotLog, diffLog >>

(***************************************************************************)
(* The session handler: the command loop.                                  *)
(***************************************************************************)
\* a reported decode error leaves the loop instead of continuing
afterLineErrorBreaks(kind) ==
  CASE kind \in {"break", "error"} -> "rlclose"
    [] kind = "command" -> "acquire"
    [] OTHER -> "loop"

\* where the loop body goes after decoding a line: `continue`, `break`, or
\* on to the guard
afterLine(kind) ==
  CASE kind = "break" -> "rlclose"
    [] kind = "command" -> "acquire"
    [] OTHER -> "loop"

\* a line handler that runs for every line as it arrives, whatever the
\* previous one is doing
loopTakesLineOnArrival ==
  pc \in {"loop", "await_handler"} /\ rl = "open" /\ rlBuffer # << >>

\* `for await (const line of rl)`: the iterator is asked for the next line
\* when the loop body has completed, and yields the oldest queued line
loopTakesLine == pc = "loop" /\ rl = "open" /\ rlBuffer # << >>

\* the loop takes a line and the body runs up to `await toolMutex.acquire()`
ProcessLine ==
  /\ loopTakesLine
  /\ \E d \in {decodeLine(Head(rlBuffer), args)} :
       /\ rlBuffer' = Tail(rlBuffer)
       /\ consumed' = Append(consumed, Head(rlBuffer))
       /\ out' = IF d.kind = "error"
                 THEN out \o writeToolError(args.format, d.tool, d.message) ELSE out
       /\ cur' = IF d.kind = "command"
                 THEN [lineNo |-> Len(consumed) + 1, toolName |-> d.toolName,
                       tool |-> findTool(d.toolName), rawParams |-> d.rawParams,
                       response |-> << >>, includeSnapshot |-> FALSE]
                 ELSE NoCommand
       /\ pc' = afterLine(d.kind)
  /\ UNCHANGED << args, browser, context, baselines, page, connected, mutexHolder, rl,
                  delivered, stdinEnded, handlers, exc, exitCode, calls, trace,
                  snapshotLog, diffLog >>

\* the async iterator of readline finishes: stdin ended and no line is queued
EndOfInput ==
  /\ pc = "loop" /\ rl = "open"
  /\ rlBuffer = << >> /\ stdinEnded
  /\ pc' = "rlclose"
  /\ UNCHANGED << args, browser, context, baselines, page, connected, mutexHolder, rl,
                  rlBuffer, delivered, stdinEnded, cur, handlers, out, exc, exitCode,
                  calls, consumed, trace, snapshotLog, diffLog >>

\* the async iterator of readline rejects: the input stream failed
ReadlineError ==
  /\ pc = "loop" /\ rl = "open"
  /\ exc' = "Input stream error"
  /\ pc' = onThrow("loop")
  /\ UNCHANGED << args, browser, context, baselines, page, connected, mutexHolder, rl,
                  rlBuffer, delivered, stdinEnded, cur, handlers, out, exitCode, calls,
                  consumed, trace, snapshotLog, diffLog >>

\* Mutex.acquire(): resolves with the guard once the mutex is free
AcquireGuard ==
  /\ pc = "acquire"
  /\ mutexHolder = 0
  /\ mutexHolder' = cur.lineNo
  /\ pc' = "parse"
  /\ UNCHANGED << args, browser, context, baselines, page, connected, rl, rlBuffer,
                  delivered, stdinEnded, cur, handlers, out, exc, exitCode, calls,
                  consumed, trace, snapshotLog, diffLog >>

\* the catch block with guard.dispose() left in the try block: an error
\* skips it
CatchWithoutDispose(path, errorText) ==
  /\ out' = out \o writeToolError(args.format, cur.toolName, errorText)
  /\ mutexHolder' = mutexHolder
  /\ exc' = exc
  /\ pc' = "loop"

\* the catch block followed by the finally block: the error is reported,
\* the guard is disposed and the loop goes on to the next line
CatchAndFinally(path, errorText) ==
  /\ out' = out \o writeToolError(args.format, cur.toolName, errorText)
  /\ mutexHolder' = 0
  /\ exc' = exc
  /\ pc' = "loop"

\* the end of the try block with writeToolSuccess left out
SuccessAndFinallyWithoutOutput(content) ==
  /\ out' = out
  /\ mutexHolder' = 0
  /\ exc' = exc
  /\ pc' = "loop"

\* the end of the try block followed by the finally block
SuccessAndFinally(content) ==
  /\ out' = out \o writeToolSuccess(args.format, cur.toolName, content)
  /\ mutexHolder' = 0
  /\ exc' = exc
  /\ pc' = "loop"

\* `tool.handler(...)` without the await: the loop goes on while it runs
InvokeHandlerNotAwaited(parsedParams) ==
  /\ handlers' = handlers \cup {Activation(cur.lineNo, cur.toolName, parsedParams)}
  /\ trace' = Append(trace, [ev |-> "begin", id |-> cur.lineNo])
  /\ pc' = "handle"

\* `await tool.handler(...)`: the handler is called and the loop waits for it
InvokeHandler(parsedParams) ==
  /\ handlers' = handlers \cup {Activation(cur.lineNo, cur.toolName, parsedParams)}
  /\ trace' = Append(trace, [ev |-> "begin", id |-> cur.lineNo])
  /\ pc' = "await_handler"

\* zod.object(tool.schema).parse(rawParams), then the handler is called
ValidateAndInvoke ==
  /\ pc = "parse"
  /\ LET parsed == zodParse(tools[cur.tool], cur.rawParams)
     IN  IF parsed.ok
         THEN /\ InvokeHandler(parsed.value)
              /\ UNCHANGED << out, mutexHolder, exc, cur >>
         ELSE /\ CatchAndFinally("validation", parsed.error)
              /\ cur' = NoCommand
              /\ UNCHANGED << handlers, trace >>
  /\ UNCHANGED << args, browser, context, baselines, page, connected, rl, rlBuffer,
                  delivered, stdinEnded, exitCode, calls, consumed, snapshotLog, diffLog >>

\* an await that resumes at once, whether the handler has completed or not
handlerSettledAtOnce(h) == TRUE

\* an await that resumes only when the handler has returned, never on an
\* error
handlerSettledOnReturn(h) == h.status = "returned"

\* the await resumes when the promise of the handler is settled
handlerSettled(h) == h.status # "running"

\* the awaited handler has completed: on to response.handle, or to the catch
ResumeAfterHandler ==
  /\ pc = "await_handler"
  /\ \E h \in handlers :
       /\ h.id = cur.lineNo
       /\ handlerSettled(h)
       /\ handlers' = handlers \ {h}
       /\ IF h.status = "returned"
          THEN /\ cur' = [cur EXCEPT !.response = h.lines,
                                     !.includeSnapshot = h.includeSnapshot]
               /\ pc' = "handle"
               /\ UNCHANGED << out, mutexHolder, exc >>
          ELSE /\ CatchAndFinally("handler", h.error)
               /\ cur' = NoCommand
  /\ UNCHANGED << args, browser, context, baselines, page, connected, rl, rlBuffer,
                  delivered, stdinEnded, exitCode, calls, consumed, trace,
                  snapshotLog, diffLog >>

\* response.handle(tool.name, context): the content of the response
responseContent(c) == << [type |-> "text", text |-> c.response] >>

\* response.handle needs the browser when the response includes a snapshot
responseHandleFails(c) == c.includeSnapshot /\ ~connected

\* response.handle resolves and the result is written
ResponseHandled ==
  /\ pc = "handle"
  /\ ~responseHandleFails(cur)
  /\ SuccessAndFinally(responseContent(cur))
  /\ cur' = NoCommand
  /\ UNCHANGED << args, browser, context, baselines, page, connected, rl, rlBuffer,
                  delivered, stdinEnded, handlers, exitCode, calls, consumed, trace,
                  snapshotLog, diffLog >>

\* response.handle rejects while formatting the response
ResponseHandleThrows ==
  /\ pc = "handle"
  /\ responseHandleFails(cur)
  /\ CatchAndFinally("format", "Protocol error (Accessibility.getFullAXTree): Session closed.")
  /\ cur' = NoCommand
  /\ UNCHANGED << args, browser, context, baselines, page, connected, rl, rlBuffer,
                  delivered, stdinEnded, handlers, exitCode, calls, consumed, trace,
                  snapshotLog, diffLog >>

(***************************************************************************)
(* The session handler: leaving the loop, teardown, and the end of main(). *)
(***************************************************************************)
\* the teardown placed after the try block instead of in its finally block:
\* an escaping exception passes it by
CloseReadlineThenSkip ==
  /\ pc = "rlclose"
  /\ rl' = "closed"
  /\ pc' = IF exc # "" THEN "main_catch" ELSE "teardown"
  /\ UNCHANGED << args, browser, context, baselines, page, connected, mutexHolder,
                  rlBuffer, delivered, stdinEnded, cur, handlers, out, exc, exitCode,
                  calls, consumed, trace, snapshotLog, diffLog >>

\* finally { rl.close() }
CloseReadline ==
  /\ pc = "rlclose"
  /\ rl' = "closed"
  /\ pc' = "teardown"
  /\ UNCHANGED << args, browser, context, baselines, page, connected, mutexHolder,
                  rlBuffer, delivered, stdinEnded, cur, handlers, out, exc, exitCode,
                  calls, consumed, trace, snapshotLog, diffLog >>

\* finally { context.dispose(); close or disconnect the browser }
Teardown ==
  /\ pc = "teardown"
  /\ context' = "disposed"
  /\ IF shouldCloseBrowser(args)
     THEN /\ browser' = "closed"
          /\ calls' = [calls EXCEPT !.teardown = @ + 1, !.close = @ + 1]
     ELSE /\ browser' = "disconnected"
          /\ calls' = [calls EXCEPT !.teardown = @ + 1, !.disconnect = @ + 1]
  /\ connected' = FALSE
  /\ pc' = IF exc # "" THEN "main_catch" ELSE "done"
  /\ UNCHANGED << args, baselines, page, mutexHolder, rl, rlBuffer, delivered, stdinEnded,
                  cur, handlers, out, exc, exitCode, consumed, trace, snapshotLog, diffLog >>

\* main() resolves
MainReturns ==
  /\ pc = "done"
  /\ pc' = "exited"
  /\ UNCHANGED << args, browser, context, baselines, page, connected, mutexHolder, rl,
                  rlBuffer, delivered, stdinEnded, cur, handlers, out, exc, exitCode,
                  calls, consumed, trace, snapshotLog, diffLog >>

\* the catch around main(): the message goes to stderr, the exit code is 1
MainCatch ==
  /\ pc = "main_catch"
  /\ out' = Append(out, [stream |-> "stderr", kind |-> "fatal", text |-> exc])
  /\ exitCode' = 1
  /\ pc' = "exited"
  /\ UNCHANGED << args, browser, context, baselines, page, connected, mutexHolder, rl,
                  rlBuffer, delivered, stdinEnded, cur, handlers, exc, calls, consumed,
                  trace, snapshotLog, diffLog >>

Next ==
  \/ LaunchOrConnect
  \/ LaunchOrConnectFails
  \/ CreateContext
  \/ CreateContextFails
  \/ InitialDetection
  \/ InitialDetectionFails
  \/ \E line \in InputLines : StdinLine(line)
  \/ StdinEnd
  \/ \E p \in Pages : PageMutates(p)
  \/ ConnectionLost
  \/ ProcessLine
  \/ EndOfInput
  \/ ReadlineError
  \/ AcquireGuard
  \/ ValidateAndInvoke
  \/ \E h \in handlers : HandlerReturns(h)
  \/ \E h \in handlers : HandlerThrows(h)
  \/ ResumeAfterHandler
  \/ ResponseHandled
  \/ ResponseHandleThrows
  \/ CloseReadline
  \/ Teardown
  \/ MainReturns
  \/ MainCatch

Spec == Init /\ [][Next]_vars

(***************************************************************************)
(* Sessions that compare snapshots: the browser is launched and stays      *)
(* connected, and every input line is a take_change_snapshot command.      *)
(***************************************************************************)
MaxSnapLines == 3

SnapLines ==
  { "take_change_snapshot",
    "take_change_snapshot --no-replaceBaseline",
    "take-change-snapshot --baseline-key a",
    "take_change_snapshot --compareTo a",
    "take_change_snapshot --compare-to=a --replaceBaseline=false" }

\* a page whose heading has another name
PageBye == << AXNode("0", "RootWebArea", ""), AXNode("0.0", "heading", "Bye") >>

SnapPages == {PageBlank, PageHello, PageBye}

SnapArgs ==
  [browserUrl |-> Undefined, wsEndpoint |-> Undefined, autoConnect |-> Undefined,
   format |-> "json", categoryEmulation |-> TRUE, categoryPerformance |-> TRUE,
   categoryNetwork |-> TRUE, experimentalVision |-> FALSE]

SnapInit == Init /\ args = SnapArgs

SnapStdinLine(line) == StdinDelivers(line, MaxSnapLines)

SnapNext ==
  \/ LaunchOrConnect
  \/ CreateContext
  \/ InitialDetection
  \/ \E line \in SnapLines : SnapStdinLine(line)
  \/ StdinEnd
  \/ \E p \in SnapPages : PageMutates(p)
  \/ ProcessLine
  \/ EndOfInput
  \/ AcquireGuard
  \/ ValidateAndInvoke
  \/ \E h \in handlers : HandlerReturns(h)
  \/ ResumeAfterHandler
  \/ ResponseHandled
  \/ CloseReadline
  \/ Teardown
  \/ MainReturns

SnapSpec == SnapInit /\ [][SnapNext]_vars

(***************************************************************************)
(* The one-shot command, runToolOnce(args, toolName): one tool invocation  *)
(* in a process of its own.  The tool parameters are options in args.      *)
(***************************************************************************)
\* the tool names and parameter options of the one-shot invocations
OnceCommands ==
  { [toolName |-> "take_change_snapshot", params |-> NoProps],
    [toolName |-> "take_change_snapshot",
     params |-> SetProp(NoProps, "baselineKey", Str("a"))],
    [toolName |-> "take_change_snapshot",
     params |-> SetProp(SetProp(NoProps, "compareTo", Str("a")),
                        "replaceBaseline", Bool(FALSE))],
    [toolName |-> "wait_for", params |-> SetProp(NoProps, "text", Str("Hello"))],
    [toolName |-> "wait_for", params |-> NoProps],
    [toolName |-> "emulate", params |-> NoProps],
    [toolName |-> "nosuch", params |-> NoProps] }

OnceInit ==
  /\ \E a \in ArgsSet, c \in OnceCommands :
       /\ a.wsEndpoint = Undefined /\ a.autoConnect = Undefined
       /\ args = c.params @@ a
       /\ cur = [NoCommand EXCEPT !.lineNo = 1, !.toolName = c.toolName]
  /\ pc = "once_lookup"
  /\ browser = "none"
  /\ context = "none"
  /\ baselines = NoProps
  /\ page \in Pages
  /\ connected = FALSE
  /\ mutexHolder = 0
  /\ rl = "none"
  /\ rlBuffer = << >>
  /\ delivered = 0
  /\ stdinEnded = FALSE
  /\ handlers = {}
  /\ out = << >>
  /\ exc = ""
  /\ exitCode = 0
  /\ calls = NoCalls
  /\ consumed = << >>
  /\ trace = << >>
  /\ snapshotLog = << >>
  /\ diffLog = << >>

\* the tool lookup and the enabled check; a failure is thrown before any
\* try block
OnceLookup ==
  /\ pc = "once_lookup"
  /\ \E tool \in {findTool(cur.toolName)} :
       IF tool = 0
       THEN /\ exc' = "Unknown tool: " \o cur.toolName
            /\ pc' = "main_catch"
            /\ cur' = cur
       ELSE IF ~toolIsEnabled(args, tools[tool])
       THEN /\ exc' = "Tool " \o cur.toolName
                        \o " is disabled by category or experimental flags."
            /\ pc' = "main_catch"
            /\ cur' = cur
       ELSE /\ cur' = [cur EXCEPT !.tool = tool]
            /\ pc' = "once_launch"
            /\ exc' = exc
  /\ UNCHANGED << args, browser, context, baselines, page, connected, mutexHolder, rl,
                  rlBuffer, delivered, stdinEnded, handlers, out, exitCode, calls,
                  consumed, trace, snapshotLog, diffLog >>

OnceLaunchOrConnect ==
  /\ pc = "once_launch"
  /\ browser' = "open"
  /\ connected' = TRUE
  /\ calls' = IF connectsToBrowser(args) THEN [calls EXCEPT !.connect = @ + 1]
              ELSE [calls EXCEPT !.launch = @ + 1]
  /\ pc' = "once_context"
  /\ UNCHANGED << args, context, baselines, page, mutexHolder, rl, rlBuffer, delivered,
                  stdinEnded, cur, handlers, out, exc, exitCode, consumed, trace,
                  snapshotLog, diffLog >>

OnceLaunchOrConnectFails ==
  /\ pc = "once_launch"
  /\ exc' = "Could not launch or connect to the browser"
  /\ pc' = "main_catch"
  /\ UNCHANGED << args, browser, context, baselines, page, connected, mutexHolder, rl,
                  rlBuffer, delivered, stdinEnded, cur, handlers, out, exitCode, calls,
                  consumed, trace, snapshotLog, diffLog >>

\* a context that finds the baselines of an earlier process
OnceCreateContextWithStoredBaselines ==
  /\ pc = "once_context"
  /\ context' = "live"
  /\ baselines' = SetProp(SetProp(NoProps, "default", PageBlank), "a", PageBlank)
  /\ calls' = [calls EXCEPT !.context = @ + 1]
  /\ pc' = "once_acquire"
  /\ UNCHANGED << args, browser, page, connected, mutexHolder, rl, rlBuffer, delivered,
                  stdinEnded, cur, handlers, out, exc, exitCode, consumed, trace,
                  snapshotLog, diffLog >>

\* McpContext.from: a fresh context, with an empty Baseline Store
OnceCreateContext ==
  /\ pc = "once_context"
  /\ context' = "live"
  /\ baselines' = NoProps
  /\ calls' = [calls EXCEPT !.context = @ + 1]
  /\ pc' = "once_acquire"
  /\ UNCHANGED << args, browser, page, connected, mutexHolder, rl, rlBuffer, delivered,
                  stdinEnded, cur, handlers, out, exc, exitCode, consumed, trace,
                  snapshotLog, diffLog >>

OnceCreateContextFails ==
  /\ pc = "once_context"
  /\ exc' = "Could not create the context"
  /\ pc' = "main_catch"
  /\ UNCHANGED << args, browser, context, baselines, page, connected, mutexHolder, rl,
                  rlBuffer, delivered, stdinEnded, cur, handlers, out, exitCode, calls,
                  consumed, trace, snapshotLog, diffLog >>

\* new Mutex(); await toolMutex.acquire()
OnceAcquireGuard ==
  /\ pc = "once_acquire"
  /\ mutexHolder = 0
  /\ mutexHolder' = cur.lineNo
  /\ pc' = "once_detect"
  /\ UNCHANGED << args, browser, context, baselines, page, connected, rl, rlBuffer,
                  delivered, stdinEnded, cur, handlers, out, exc, exitCode, calls,
                  consumed, trace, snapshotLog, diffLog >>

OnceInitialDetection ==
  /\ pc = "once_detect"
  /\ calls' = [calls EXCEPT !.detect = @ + 1]
  /\ pc' = "once_parse"
  /\ UNCHANGED << args, browser, context, baselines, page, connected, mutexHolder, rl,
                  rlBuffer, delivered, stdinEnded, cur, handlers, out, exc, exitCode,
                  consumed, trace, snapshotLog, diffLog >>

OnceInitialDetectionFails ==
  /\ pc = "once_detect"
  /\ calls' = [calls EXCEPT !.detect = @ + 1]
  /\ exc' = "Initial detection failed"
  /\ pc' = "once_teardown"
  /\ UNCHANGED << args, browser, context, baselines, page, connected, mutexHolder, rl,
                  rlBuffer, delivered, stdinEnded, cur, handlers, out, exitCode,
                  consumed, trace, snapshotLog, diffLog >>

\* rawParams: the options of args that are keys of the tool's schema
onceRawParams(a, tool) ==
  [k \in {x \in {tool.schema[i].key : i \in DOMAIN tool.schema} \cap DOMAIN a :
             a[x] # Undefined} |-> a[k]]

\* zod.object(tool.schema).parse(rawParams), then `await tool.handler(...)`;
\* a validation error leaves through the finally block
OnceValidateAndInvoke ==
  /\ pc = "once_parse"
  /\ \E parsed \in {zodParse(tools[cur.tool], onceRawParams(args, tools[cur.tool]))} :
       IF parsed.ok
       THEN /\ handlers' = handlers \cup
                             {Activation(cur.lineNo, cur.toolName, parsed.value)}
            /\ trace' = Append(trace, [ev |-> "begin", id |-> cur.lineNo])
            /\ pc' = "once_await"
            /\ exc' = exc
       ELSE /\ exc' = parsed.error
            /\ pc' = "once_teardown"
            /\ UNCHANGED << handlers, trace >>
  /\ UNCHANGED << args, browser, context, baselines, page, connected, mutexHolder, rl,
                  rlBuffer, delivered, stdinEnded, cur, out, exitCode, calls, consumed,
                  snapshotLog, diffLog >>

\* the awaited handler has completed: on to response.handle, or out through
\* the finally block with its error
OnceResumeAfterHandler ==
  /\ pc = "once_await"
  /\ \E h \in handlers :
       /\ h.id = cur.lineNo
       /\ handlerSettled(h)
       /\ handlers' = handlers \ {h}
       /\ IF h.status = "returned"
          THEN /\ cur' = [cur EXCEPT !.response = h.lines,
                                     !.includeSnapshot = h.includeSnapshot]
               /\ pc' = "once_handle"
               /\ exc' = exc
          ELSE /\ exc' = h.error
               /\ pc' = "once_teardown"
               /\ cur' = cur
  /\ UNCHANGED << args, browser, context, baselines, page, connected, mutexHolder, rl,
                  rlBuffer, delivered, stdinEnded, out, exitCode, calls, consumed, trace,
                  snapshotLog, diffLog >>

\* response.handle resolves; the content is written as one JSON document or
\* as one line per item
OnceResponseHandled ==
  /\ pc = "once_handle"
  /\ ~responseHandleFails(cur)
  /\ out' = out \o writeToolSuccess(args.format, cur.toolName, responseContent(cur))
  /\ pc' = "once_teardown"
  /\ UNCHANGED << args, browser, context, baselines, page, connected, mutexHolder, rl,
                  rlBuffer, delivered, stdinEnded, cur, handlers, exc, exitCode, calls,
                  consumed, trace, snapshotLog, diffLog >>

\* finally { guard.dispose(); context.dispose(); close or disconnect }
OnceTeardown ==
  /\ pc = "once_teardown"
  /\ mutexHolder' = 0
  /\ context' = "disposed"
  /\ IF shouldCloseBrowser(args)
     THEN /\ browser' = "closed"
          /\ calls' = [calls EXCEPT !.teardown = @ + 1, !.close = @ + 1]
     ELSE /\ browser' = "disconnected"
          /\ calls' = [calls EXCEPT !.teardown = @ + 1, !.disconnect = @ + 1]
  /\ connected' = FALSE
  /\ pc' = IF exc # "" THEN "main_catch" ELSE "done"
  /\ UNCHANGED << args, baselines, page, rl, rlBuffer, delivered, stdinEnded, cur,
                  handlers, out, exc, exitCode, consumed, trace, snapshotLog, diffLog >>

OnceNext ==
  \/ OnceLookup
  \/ OnceLaunchOrConnect
  \/ OnceLaunchOrConnectFails
  \/ OnceCreateContext
  \/ OnceCreateContextFails
  \/ OnceAcquireGuard
  \/ OnceInitialDetection
  \/ OnceInitialDetectionFails
  \/ OnceValidateAndInvoke
  \/ \E h \in handlers : HandlerReturns(h)
  \/ \E h \in handlers : HandlerThrows(h)
  \/ OnceResumeAfterHandler
  \/ OnceResponseHandled
  \/ OnceTeardown
  \/ MainReturns
  \/ MainCatch

\* one process of the CLI: a session over the snapshot commands, or a
\* one-shot invocation
CliInit == SnapInit \/ OnceInit

CliNext == SnapNext \/ OnceNext

CliSpec == CliInit /\ [][CliNext]_vars

(***************************************************************************)
(* A session over lines that exercise the Command Decoder.                 *)
(***************************************************************************)
\* number of input lines of a decoder session
MaxDecodeLines == 2

\* quoting and escaping
QuotingLines ==
  { "fill <uid> \"Example text\"", "fill 'a b' c\\ d", "fill \"abc" }

\* boolean flags
BooleanLines ==
  { "list_console_messages", "list_console_messages --includePreservedMessages",
    "list_console_messages --no-include-preserved-messages",
    "take_snapshot", "take_snapshot --verbose", "take_snapshot --no-verbose" }

\* positional tokens, `--`, and flags among them
PositionalLines ==
  { "fill -- --a --no-b", "fill -- -- x", "fill --uid x a b", "resize_page 800 600",
    "take_snapshot path", "fill_form x", "performance_start_trace true" }

\* lines the decoder rejects
RejectedLines ==
  { "take_snapshot --bogus", "take_snapshot --no-bogus", "fill a b c",
    "take_snapshot --filePath", "resize_page 800 abc", "fill_form --elements [x" }

\* lines without a command, and JSON lines without a usable tool
EmptyLines == { "", "  ", "# note", "  # note", "{", "{}" }

DecodeLines ==
  QuotingLines \cup BooleanLines \cup PositionalLines \cup RejectedLines
    \cup EmptyLines \cup { "take_change_snapshot" }

DecodeInit == Init /\ args = SnapArgs

DecodeStdinLine(line) == StdinDelivers(line, MaxDecodeLines)

DecodeNext ==
  \/ LaunchOrConnect
  \/ CreateContext
  \/ InitialDetection
  \/ \E line \in DecodeLines : DecodeStdinLine(line)
  \/ StdinEnd
  \/ ProcessLine
  \/ EndOfInput
  \/ AcquireGuard
  \/ ValidateAndInvoke
  \/ \E h \in handlers : HandlerReturns(h)
  \/ ResumeAfterHandler
  \/ ResponseHandled
  \/ CloseReadline
  \/ Teardown
  \/ MainReturns

DecodeSpec == DecodeInit /\ [][DecodeNext]_vars

(***************************************************************************)
(* A session over lines with repeated flags, flags next to positional      *)
(* tokens, and flags followed by tokens that look like flags.              *)
(***************************************************************************)
\* repeated flags of an array parameter, and a JSON-array literal
ArrayLines ==
  { "list_network_requests --resourceTypes script",
    "list_network_requests --resourceTypes script --resourceTypes image",
    "list_network_requests --resourceTypes image --resourceTypes script --resourceTypes font",
    "list_network_requests --resourceTypes '[\"a\",\"b\"]'" }

\* a parameter given by flag and by position
LastWriteLines ==
  { "fill a --uid x b", "fill a b --uid x", "fill a b --value c", "fill --uid x a b",
    "fill --value v a", "resize_page --height 5 800 600" }

\* flags written without `=value`
FlagValueLines ==
  { "take_snapshot --verbose false", "take_snapshot --verbose --filePath x",
    "performance_start_trace --reload --autoStop",
    "take_snapshot --filePath --verbose", "take_snapshot --filePath --",
    "take_snapshot --filePath --no-verbose --verbose" }

FlagLines == ArrayLines \cup LastWriteLines \cup FlagValueLines

FlagInit == Init /\ args = SnapArgs

FlagStdinLine(line) == StdinDelivers(line, MaxDecodeLines)

FlagNext ==
  \/ LaunchOrConnect
  \/ CreateContext
  \/ InitialDetection
  \/ \E line \in FlagLines : FlagStdinLine(line)
  \/ StdinEnd
  \/ ProcessLine
  \/ EndOfInput
  \/ AcquireGuard
  \/ ValidateAndInvoke
  \/ \E h \in handlers : HandlerReturns(h)
  \/ ResumeAfterHandler
  \/ ResponseHandled
  \/ CloseReadline
  \/ Teardown
  \/ MainReturns

FlagSpec == FlagInit /\ [][FlagNext]_vars

(***************************************************************************)
(* A session in json format over lines that start with `{`.                *)
(***************************************************************************)
\* number of input lines of such a session
MaxBraceLines == 2

BraceLines ==
  { "{", "{}", "{\"tool\":7}", "{\"tool\":\"exit\"}", "{\"tool\":\"quit\"}",
    "{\"tool\":\" exit\"}", "{\"tool\":\"nosuch\"}", "{\"tool\":\"emulate\"}",
    "{\"tool\":\"wait_for\"}", "{\"tool\":\"wait_for\",\"params\":{\"text\":\"Hello\"}}",
    "{\"tool\":\"take_change_snapshot\"}",
    "{\"tool\":\"take_change_snapshot\",\"params\":{\"replaceBaseline\":false}}" }

BraceInit == Init /\ args.format = "json" /\ ~connectsToBrowser(args)

BraceStdinLine(line) == StdinDelivers(line, MaxBraceLines)

BraceNext ==
  \/ LaunchOrConnect
  \/ CreateContext
  \/ InitialDetection
  \/ \E line \in BraceLines : BraceStdinLine(line)
  \/ StdinEnd
  \/ ProcessLine
  \/ EndOfInput
  \/ AcquireGuard
  \/ ValidateAndInvoke
  \/ \E h \in handlers : HandlerReturns(h)
  \/ \E h \in handlers : HandlerThrows(h)
  \/ ResumeAfterHandler
  \/ ResponseHandled
  \/ CloseReadline
  \/ Teardown
  \/ MainReturns

BraceSpec == BraceInit /\ [][BraceNext]_vars

(***************************************************************************)
(* A session into which the lines of the documentation generator are       *)
(* pasted, with and without the leading `chrome_devtools`.                 *)
(***************************************************************************)
\* number of pasted lines of a session
MaxPasteLines == 1

\* the tools of the registry with their example params
TableExamples ==
  { [tool |-> tools[i], example |-> TOOL_CLI_EXAMPLE_PARAMS(tools[i].name)] :
      i \in DOMAIN tools }

\* other example params of the schemas: paths, quotes, tabs, placeholders
OtherExamples ==
  { [tool |-> takeSnapshot,
     example |-> SetProp(NoProps, "filePath", Str("C:\\tmp\\snap.txt"))],
    [tool |-> takeSnapshot,
     example |-> SetProp(SetProp(NoProps, "verbose", Bool(TRUE)),
                         "filePath", Str("/tmp/my snap.txt"))],
    [tool |-> fill,
     example |-> SetProp(SetProp(NoProps, "uid", Str("1_2")), "value", Str("it's"))],
    [tool |-> fill,
     example |-> SetProp(SetProp(NoProps, "uid", Str("1_2")),
                         "value", Str("say \"hi\""))],
    [tool |-> fill,
     example |-> SetProp(SetProp(NoProps, "uid", Str("1_2")), "value", Str("a\tb"))],
    [tool |-> fill,
     example |-> SetProp(SetProp(NoProps, "uid", Str("<uid from take_snapshot>")),
                         "value", Str("x"))],
    [tool |-> waitFor, example |-> SetProp(NoProps, "text", Str("--help"))],
    [tool |-> waitFor, example |-> SetProp(NoProps, "text", Str(""))],
    [tool |-> resizePage,
     example |-> SetProp(SetProp(NoProps, "width", Num(0)), "height", Num(-1))] }

DocExamples == TableExamples \cup OtherExamples

\* the generated line as it is pasted: whole, or without its first part
PastedLine(d, withPrefix) ==
  IF withPrefix THEN getCliCommandForTool(d.tool, d.example)
  ELSE joinWithSpace(Tail(cliCommandParts(d.tool, d.example)))

PasteInit == Init /\ args = SnapArgs

PasteStdinLine(d, withPrefix) == StdinDelivers(PastedLine(d, withPrefix), MaxPasteLines)

PasteNext ==
  \/ LaunchOrConnect
  \/ CreateContext
  \/ InitialDetection
  \/ \E d \in DocExamples, withPrefix \in BOOLEAN : PasteStdinLine(d, withPrefix)
  \/ StdinEnd
  \/ ProcessLine
  \/ EndOfInput
  \/ AcquireGuard
  \/ ValidateAndInvoke
  \/ \E h \in handlers : HandlerReturns(h)
  \/ ResumeAfterHandler
  \/ ResponseHandled
  \/ CloseReadline
  \/ Teardown
  \/ MainReturns

PasteSpec == PasteInit /\ [][PasteNext]_vars

(***************************************************************************)
(* The diff engine called directly, on snapshots of up to three nodes.     *)
(***************************************************************************)
\* number of calls of the diff engine
MaxDiffs == 2

\* the first child of the root: none, a heading, a button with another
\* name, or the heading with an attribute
FirstChildren ==
  { << >>,
    << AXNode("0.0", "heading", "Hello") >>,
    << AXNode("0.0", "button", "Bye") >>,
    << [AXNode("0.0", "heading", "Hello") EXCEPT
          !.attributes = SetProp(NoProps, "level", Str("1"))] >> }

\* the second child of the root: none, or a link
SecondChildren == { << >>, << AXNode("0.1", "link", "More") >> }

\* the normalized snapshots given to the diff engine
Snapshots ==
  { << AXNode("0", "RootWebArea", "") >> \o first \o second :
      first \in FirstChildren, second \in SecondChildren }

DiffInit == Init /\ args = SnapArgs

\* diffSnapshots(old, new) followed by hasSnapshotChanges(diff)
DiffCall(old, new) ==
  /\ Len(diffLog) < MaxDiffs
  /\ \E diff \in {diffSnapshots(old, new)} :
       diffLog' = Append(diffLog, [old |-> old, new |-> new, diff |-> diff,
                                   hasChanges |-> hasSnapshotChanges(diff)])
  /\ UNCHANGED << args, pc, browser, context, baselines, page, connected, mutexHolder, rl,
                  rlBuffer, delivered, stdinEnded, cur, handlers, out, exc, exitCode,
                  calls, consumed, trace, snapshotLog >>

DiffNext == \E old \in Snapshots, new \in Snapshots : DiffCall(old, new)

DiffSpec == DiffInit /\ [][DiffNext]_vars

\* the event loop runs what is ready: a pending browser call or timer of a
\* handler completes, and a settled await resumes
HandlerCompletes == \E h \in handlers : HandlerReturns(h) \/ HandlerThrows(h)

AwaitResumes == ResumeAfterHandler \/ ResponseHandled \/ ResponseHandleThrows

\* the sessions that launch their browser, under the event loop
FairInit == Init /\ ~connectsToBrowser(args)

FairSpec ==
  FairInit /\ [][Next]_vars /\ WF_vars(HandlerCompletes) /\ WF_vars(AwaitResumes)

(***************************************************************************)
(* Properties of the session runtime.                                      *)
(***************************************************************************)
\* the lifecycle state of the session at a position of the handler
Phase ==
  CASE pc \in {"launch", "context", "init"} -> "Starting"
    [] pc \in {"loop", "acquire"} -> "Ready"
    [] pc \in {"parse", "await_handler", "handle"} -> "Executing"
    [] pc \in {"rlclose", "teardown"} -> "Draining"
    [] OTHER -> "Closed"

\* the error text of a per-command error report, in either output format
EndsWith(s, m) == Len(s) >= Len(m) /\ SubSeq(s, Len(s) - Len(m) + 1, Len(s)) = m

ReportsError(o, m) ==
  /\ o.kind = "error"
  /\ IF "json" \in DOMAIN o THEN o.json.error = m ELSE EndsWith(o.text, ": " \o m)

\* C1: at every moment at most one handler invocation is in flight, and a
\* handler runs only while its command holds the guard: no state has two
\* running handlers, or a running handler with the guard free.
C1_OneHandlerUnderGuard ==
  /\ Cardinality(InFlight) <= 1
  /\ \A h \in InFlight : mutexHolder # 0 /\ mutexHolder = h.id
  /\ Phase = "Executing" => mutexHolder # 0 /\ mutexHolder = cur.lineNo

\* the handler of the second command runs, holding the guard
C1_Witness == \E h \in InFlight : h.id = 2 /\ mutexHolder = 2

\* C2: handler invocations are totally ordered by line order: a handler begins
\* only after every handler begun before it, which belongs to an earlier
\* line, has ended; and the Baseline Store is written only by the one handler
\* in flight, as it ends.
C2_Order ==
  \A k \in DOMAIN trace : trace[k].ev = "begin" =>
    \A j \in 1..(k - 1) : trace[j].ev = "begin" =>
      /\ trace[j].id < trace[k].id
      /\ \E e \in (j + 1)..(k - 1) : trace[e] = [ev |-> "end", id |-> trace[j].id]

C2_StoreWrite ==
  baselines' # baselines =>
    \E h \in InFlight :
      /\ InFlight = {h}
      /\ trace' = Append(trace, [ev |-> "end", id |-> h.id])

C2_TotalOrder == []C2_Order /\ [][C2_StoreWrite]_vars

\* two handlers have begun, and the first has written the Baseline Store
C2_Witness ==
  /\ baselines # NoProps
  /\ \E j, k \in DOMAIN trace :
       j < k /\ trace[j] = [ev |-> "begin", id |-> 1]
             /\ trace[k] = [ev |-> "begin", id |-> 2]

\* C3: the guard is released on every exit path of a command that acquired
\* it (success, validation error, handler exception, failure while the
\* response is formatted): outside of the execution of a command the guard
\* is free, in particular when the next line is processed.
C3_GuardReleased == Phase # "Executing" => mutexHolder = 0

\* back at the top of the loop after a validation error and then a failure
\* while the response was formatted
C3_Witness ==
  /\ pc = "loop" /\ mutexHolder = 0 /\ Len(out) = 2
  /\ ReportsError(out[1], "ZodError: text: Expected string")
  /\ ReportsError(out[2], "Protocol error (Accessibility.getFullAXTree): Session closed.")

\* C4: no per-command error ends the session: when an error of a line or of
\* a command is reported, the session is back at the top of the loop with the
\* input open, the guard free and no exception pending, so that the next line
\* is decoded and executed.
C4_Step ==
  (Len(out') = Len(out) + 1 /\ out'[Len(out')].kind = "error") =>
    /\ pc' = "loop" /\ rl' = "open"
    /\ mutexHolder' = 0 /\ exc' = "" /\ exitCode' = 0
    /\ rlBuffer' # << >> => loopTakesLine'

C4_ErrorsDoNotEndSession == [][C4_Step]_vars

\* the first line was answered with an error and the command of the second
\* line is executed
C4_Witness ==
  /\ Len(consumed) = 2 /\ out # << >> /\ out[1].kind = "error"
  /\ \E k \in DOMAIN trace : trace[k] = [ev |-> "begin", id |-> 2]

\* C5: teardown runs exactly once per session whose context was created,
\* however the loop ends (end of input, exit sentinel, escaping error): never
\* before the loop has ended, never twice, and once when the process ends.
C5_TeardownOnce ==
  /\ calls.teardown <= 1
  /\ Phase \in {"Starting", "Ready", "Executing"} => calls.teardown = 0
  /\ (Phase = "Closed" /\ calls.context = 1) => calls.teardown = 1
  /\ calls.teardown = 1 =>
       context = "disposed" /\ browser \in {"closed", "disconnected"}

\* the process has ended after an error escaped the loop, with one teardown
C5_Witness ==
  /\ pc = "exited" /\ exc = "Input stream error"
  /\ consumed # << >> /\ calls.teardown = 1

\* C6: teardown calls browser.close() if and only if the runtime launched the
\* browser itself, which is when none of browserUrl, wsEndpoint, autoConnect
\* is set; otherwise it calls browser.disconnect(); exactly one of the two.
C6_CloseIffLaunched ==
  /\ calls.close + calls.disconnect = calls.teardown
  /\ calls.teardown = 1 =>
       /\ calls.close = 1 <=> calls.launch = 1
       /\ calls.close = 1 <=> (/\ ~Truthy(args.browserUrl)
                               /\ ~Truthy(args.wsEndpoint)
                               /\ ~Truthy(args.autoConnect))
  /\ browser = "closed" => calls.launch = 1 /\ calls.connect = 0

\* a browser reached with autoConnect alone was disconnected, not closed
C6_Witness ==
  /\ calls.disconnect = 1 /\ calls.close = 0 /\ browser = "disconnected"
  /\ Truthy(args.autoConnect) /\ ~Truthy(args.browserUrl) /\ ~Truthy(args.wsEndpoint)

\* the lines that are an exit/quit sentinel, in JSON form and in CLI form
SentinelLines == {"exit", "quit", "{\"tool\":\"exit\"}", "{\"tool\":\"quit\"}"}

\* C7: once an exit/quit sentinel or the end of input was seen, no later line
\* is taken, no handler runs and the Baseline Store does not change; the
\* command that was executing has finished, guard released, before teardown.
C7_State ==
  /\ \A i \in DOMAIN consumed : consumed[i] \in SentinelLines =>
       /\ i = Len(consumed)
       /\ Phase \in {"Draining", "Closed"}
       /\ \A k \in DOMAIN trace : trace[k].id < i
  /\ Phase \in {"Draining", "Closed"} => InFlight = {} /\ mutexHolder = 0

C7_Step ==
  Phase \in {"Draining", "Closed"} =>
    /\ baselines' = baselines /\ handlers' = handlers
    /\ trace' = trace /\ consumed' = consumed

C7_NothingAfterExit == []C7_State /\ [][C7_Step]_vars

\* the process has ended on a sentinel while a later line was queued, which
\* no handler ever ran
C7_Witness ==
  /\ pc = "exited" /\ Len(consumed) = 1 /\ consumed[1] \in SentinelLines
  /\ rlBuffer # << >> /\ trace = << >>

\* launch/connect and the initial detection happen at most once, and before
\* any command is executed
StartsOnce ==
  /\ calls.launch + calls.connect <= 1
  /\ calls.detect <= 1
  /\ trace # << >> => calls.launch + calls.connect = 1 /\ calls.detect = 1

\* the transitions Starting -> Ready -> (Executing <-> Ready)* -> Draining -> Closed
LifecycleEdges ==
  { <<"Starting", "Ready">>, <<"Ready", "Executing">>, <<"Executing", "Ready">>,
    <<"Ready", "Draining">>, <<"Draining", "Closed">> }

\* the transitions of a start-up that fails
FailedStartEdges == { <<"Starting", "Draining">>, <<"Starting", "Closed">> }

\* C8 as stated: the lifecycle only follows the transitions Starting ->
\* Ready -> (Executing <-> Ready)* -> Draining -> Closed, launch/connect and
\* detection happen at most once before any command, and in Closed no command
\* is executed and no output is produced.
C8_StatedStep ==
  /\ Phase' # Phase => <<Phase, Phase'>> \in LifecycleEdges
  /\ Phase = "Closed" => trace' = trace /\ handlers' = handlers /\ out' = out

C8_LifecycleAsStated == []StartsOnce /\ [][C8_StatedStep]_vars

\* C8, amended: the lifecycle follows those transitions, except that a
\* start-up that fails goes from Starting to Draining or to Closed;
\* launch/connect and detection happen at most once before any command; in
\* Closed no command is executed, and the only output is the message of an
\* escaped error, written to stderr as the process ends.
C8_Step ==
  /\ Phase' # Phase => <<Phase, Phase'>> \in LifecycleEdges \cup FailedStartEdges
  /\ Phase = "Closed" =>
       /\ trace' = trace /\ handlers' = handlers
       /\ \/ out' = out
          \/ /\ exc # "" /\ pc' = "exited"
             /\ out' = Append(out, [stream |-> "stderr", kind |-> "fatal", text |-> exc])

C8_Lifecycle == []StartsOnce /\ [][C8_Step]_vars

\* the initial detection failed: the session went from Starting to teardown
\* and the error message was written after it
C8_Witness ==
  /\ pc = "exited" /\ exc = "Initial detection failed" /\ calls.teardown = 1
  /\ rl = "none" /\ out = << [stream |-> "stderr", kind |-> "fatal", text |-> exc] >>

\* C9 as stated: while a handler executes and holds the guard, the runtime
\* goes on consuming input: a following line that has arrived can be taken
\* and decoded before the handler completes.
C9_DecodesWhileExecuting ==
  (InFlight # {} /\ mutexHolder # 0 /\ rlBuffer # << >>) => ENABLED ProcessLine

\* C9, amended: while a handler executes, the lines that arrive are queued by
\* readline, and the loop takes and decodes the following line only when the
\* handler has completed and the guard is released.
C9_Step ==
  consumed' # consumed =>
    /\ InFlight = {} /\ mutexHolder = 0
    /\ consumed' = Append(consumed, Head(rlBuffer))

C9_DecodesAfterCompletion == [][C9_Step]_vars

\* the following line has arrived and waits in the queue while the handler
\* of the first command executes
C9_Witness ==
  /\ InFlight # {} /\ mutexHolder = 1
  /\ Len(consumed) = 1 /\ rlBuffer # << >>

\* the errors of a lost browser connection
FatalMessages ==
  { "Protocol error: Connection closed.",
    "Protocol error (Accessibility.getFullAXTree): Session closed." }

\* C10: a fatal error (the connection to the browser is lost) that occurs
\* while a command is processed is not recovered as a per-command error: no
\* error report of a command carries it; it leaves the loop instead.
C10_FatalErrorEscapes ==
  \A k \in DOMAIN out : \A m \in FatalMessages : ~ReportsError(out[k], m)

\* the error of a wait for page text whose timeout expired
TimeoutMessage == "Timed out after waiting"

\* a wait_for handler is waiting for a text the page does not show
WaitsForAbsentText ==
  \E h \in InFlight : h.tool = "wait_for" /\ ~PageHasText(page, h.params["text"].s)

\* C11: a wait_for whose text does not appear does not hold the guard
\* forever: the guard is released again; and when the timeout has expired,
\* the loop reports the timeout error for that command, releases the guard
\* and is back at the top of the loop, where the next command can execute.
C11_Step ==
  (/\ pc = "await_handler" /\ pc' # pc
   /\ \E h \in handlers : h.id = cur.lineNo /\ h.error = TimeoutMessage) =>
    /\ out' = out \o writeToolError(args.format, "wait_for", TimeoutMessage)
    /\ mutexHolder' = 0 /\ pc' = "loop" /\ exc' = "" /\ rl' = "open"

C11_TimeoutReleasesGuard ==
  /\ [][C11_Step]_vars
  /\ WaitsForAbsentText ~> (mutexHolder = 0)

\* a wait_for timed out, its error was reported, and the handler of the
\* next command runs under the guard
C11_Witness ==
  /\ Len(out) >= 1 /\ ReportsError(out[1], TimeoutMessage)
  /\ \E h \in InFlight : h.id = 2 /\ mutexHolder = 2

\* the error report for a tool that the process configuration disables
DisabledMessage(toolName) ==
  "Tool " \o toolName \o " is disabled by category or experimental flags."

\* C12: a handler is invoked only for a command whose tool is in the
\* registry, is enabled under the process configuration, and whose raw
\* params passed validation, and only that command acquires the guard; a
\* line for a disabled tool is reported as an error without the guard
\* being acquired; a validation failure is reported as an error and the
\* guard, which was acquired, is released without the handler running.
C12_State ==
  /\ \A h \in handlers :
       /\ h.id = cur.lineNo /\ cur.tool # 0 /\ tools[cur.tool].name = h.tool
       /\ toolIsEnabled(args, tools[cur.tool])
       /\ zodParse(tools[cur.tool], cur.rawParams) = Ok(h.params)
  /\ mutexHolder # 0 =>
       /\ cur.tool # 0 /\ toolIsEnabled(args, tools[cur.tool])
       /\ mutexHolder = cur.lineNo

C12_DisabledStep ==
  (/\ consumed' # consumed
   /\ Head(rlBuffer) \in {"emulate", "{\"tool\":\"emulate\"}"}
   /\ args.categoryEmulation = FALSE) =>
    /\ out' = out \o writeToolError(args.format, "emulate", DisabledMessage("emulate"))
    /\ pc' = "loop" /\ mutexHolder = 0 /\ mutexHolder' = 0
    /\ handlers' = handlers /\ trace' = trace

C12_InvalidStep ==
  (/\ pc = "parse" /\ pc' # pc
   /\ ~zodParse(tools[cur.tool], cur.rawParams).ok) =>
    /\ mutexHolder = cur.lineNo /\ mutexHolder' = 0
    /\ Len(out') = Len(out) + 1 /\ out'[Len(out')].kind = "error"
    /\ pc' = "loop" /\ handlers' = handlers /\ trace' = trace

C12_HandlerOnlyWhenValid ==
  []C12_State /\ [][C12_DisabledStep /\ C12_InvalidStep]_vars

\* a disabled tool and then a validation failure were reported, no handler
\* has run and the guard is free
C12_Witness ==
  /\ Len(out) = 2 /\ ReportsError(out[1], DisabledMessage("emulate"))
  /\ ReportsError(out[2], "ZodError: text: Expected string")
  /\ consumed = << "emulate", "{\"tool\":\"wait_for\"}" >>
  /\ trace = << >> /\ mutexHolder = 0 /\ pc = "loop"

\* the lines that name the tool `nosuch`, which is not in the registry, in
\* CLI form and in JSON form
UnknownToolLines == {"nosuch", "{\"tool\":\"nosuch\"}"}

\* C13: in both input forms a line naming a tool that is not in the registry
\* yields exactly one error report, whose message names the tool; it
\* invokes no handler, and the session is back at the top of the loop with
\* the input open.
C13_State ==
  /\ \A i \in DOMAIN consumed : consumed[i] \in UnknownToolLines =>
       \A k \in DOMAIN trace : trace[k].id # i
  /\ Cardinality({k \in DOMAIN out : ReportsError(out[k], "Unknown tool: nosuch")})
       = Cardinality({i \in DOMAIN consumed : consumed[i] \in UnknownToolLines})

C13_Step ==
  (consumed' # consumed /\ Head(rlBuffer) \in UnknownToolLines) =>
    /\ Len(out') = Len(out) + 1
    /\ \A k \in DOMAIN out : out'[k] = out[k]
    /\ ReportsError(out'[Len(out')], "Unknown tool: nosuch")
    /\ handlers' = handlers /\ trace' = trace /\ mutexHolder' = 0
    /\ pc' = "loop" /\ rl' = "open" /\ exc' = "" /\ exitCode' = 0

C13_UnknownToolReported == []C13_State /\ [][C13_Step]_vars

\* both forms of the unknown tool were reported, one report each, and the
\* session still takes input
C13_Witness ==
  /\ consumed = << "nosuch", "{\"tool\":\"nosuch\"}" >>
  /\ Len(out) = 2 /\ pc = "loop" /\ rl = "open"
  /\ ReportsError(out[1], "Unknown tool: nosuch")
  /\ ReportsError(out[2], "Unknown tool: nosuch")

(***************************************************************************)
(* Properties of take_change_snapshot.  They are stated over the calls     *)
(* that captured a snapshot: a call for which getTextSnapshot returns      *)
(* nothing reports that and leaves the Baseline Store as it is.            *)
(***************************************************************************)
\* the keys and the opt-out of a logged call, from its parameters
BaselineKeyOf(e) == stringParamOr(e.params, "baselineKey", "default")
CompareKeyOf(e) == stringParamOr(e.params, "compareTo", BaselineKeyOf(e))
OptsOut(e) == GetProp(e.params, "replaceBaseline") = Bool(FALSE)
Captured(e) == e.snapshot # NoSnapshot

\* the Baseline Store as the i-th logged call left it
StoreAfter(i) ==
  IF i < Len(snapshotLog) THEN snapshotLog[i + 1].store ELSE baselines

\* the page was seen unchanged from call i to call j: every snapshot
\* captured by the calls i..j is the one call i captured
SameSnapshot(i, j) ==
  \A k \in i..j : snapshotLog[k].snapshot \in {snapshotLog[i].snapshot, NoSnapshot}

NoChangesReport(key) ==
  << "No accessibility changes compared to baseline \"" \o key \o "\"." >>

ReportsChanges(e) ==
  /\ Len(e.lines) >= 2
  /\ startsWith(e.lines[1], "Accessibility changes compared to baseline")

\* C14: a call on a key with no stored baseline reports "No baseline found"
\* and stores the snapshot it captured under that key; a following call that
\* compares against the same key, the page unchanged in between, reports
\* "No accessibility changes compared to baseline".
C14_CreateThenNoChanges ==
  \A i \in DOMAIN snapshotLog :
    LET e == snapshotLog[i]
        key == CompareKeyOf(e)
    IN  (Captured(e) /\ BaselineKeyOf(e) = key /\ key \notin DOMAIN e.store) =>
          /\ Len(e.lines) = 1 /\ startsWith(e.lines[1], "No baseline found")
          /\ key \in DOMAIN StoreAfter(i) /\ StoreAfter(i)[key] = e.snapshot
          /\ \A j \in (i + 1)..Len(snapshotLog) :
               (/\ CompareKeyOf(snapshotLog[j]) = key /\ Captured(snapshotLog[j])
                /\ SameSnapshot(i, j)) =>
                 snapshotLog[j].lines = NoChangesReport(key)

\* the first call created the baseline and the second found no changes
C14_Witness ==
  /\ Len(snapshotLog) = 2
  /\ snapshotLog[1].store = NoProps /\ snapshotLog[1].snapshot = PageHello
  /\ startsWith(snapshotLog[1].lines[1], "No baseline found")
  /\ snapshotLog[2].snapshot = PageHello
  /\ snapshotLog[2].lines = NoChangesReport("default")

C16_BaselineRollsForward ==
  \A i \in DOMAIN snapshotLog :
    LET e == snapshotLog[i]
    IN  (Captured(e) /\ CompareKeyOf(e) \in DOMAIN e.store /\ ~OptsOut(e)) =>
          /\ BaselineKeyOf(e) \in DOMAIN StoreAfter(i)
          /\ StoreAfter(i)[BaselineKeyOf(e)] = e.snapshot

\* one call found changes and one found none, and both left the snapshot
\* they captured at baselineKey; the second compared against another key
C16_Witness ==
  /\ Len(snapshotLog) = 3
  /\ ReportsChanges(snapshotLog[2]) /\ ~OptsOut(snapshotLog[2])
  /\ CompareKeyOf(snapshotLog[3]) = "a" /\ BaselineKeyOf(snapshotLog[3]) = "default"
  /\ DOMAIN snapshotLog[3].store = {"a", "default"} /\ ~OptsOut(snapshotLog[3])
  /\ snapshotLog[3].store["default"] = snapshotLog[2].snapshot
  /\ snapshotLog[3].lines = NoChangesReport("a")
  /\ snapshotLog[3].store["default"] # snapshotLog[3].snapshot
  /\ baselines["default"] = snapshotLog[3].snapshot

\* C17: when a baseline exists at compareKey and the caller passes
\* replaceBaseline=false, the call leaves the whole Baseline Store unchanged,
\* so repeated such calls all compare against the same baseline.
C17_OptOutKeepsStore ==
  \A i \in DOMAIN snapshotLog :
    LET e == snapshotLog[i]
    IN  (CompareKeyOf(e) \in DOMAIN e.store /\ OptsOut(e)) =>
          /\ StoreAfter(i) = e.store
          /\ \A j \in (i + 1)..Len(snapshotLog) :
               (\A k \in i..j : /\ OptsOut(snapshotLog[k])
                                 /\ CompareKeyOf(snapshotLog[k]) = CompareKeyOf(e)) =>
                 /\ snapshotLog[j].store = e.store
                 /\ StoreAfter(j) = e.store

\* after the baseline was created, two calls with replaceBaseline=false
\* both reported the changes against it, and it is still the stored one
C17_Witness ==
  /\ Len(snapshotLog) = 3
  /\ snapshotLog[1].snapshot = PageBlank /\ snapshotLog[1].store = NoProps
  /\ OptsOut(snapshotLog[2]) /\ OptsOut(snapshotLog[3])
  /\ snapshotLog[2].snapshot = PageHello /\ ReportsChanges(snapshotLog[2])
  /\ snapshotLog[3].snapshot = PageHello /\ ReportsChanges(snapshotLog[3])
  /\ baselines = SetProp(NoProps, "default", PageBlank)

\* the report of a created baseline
CreatedReport(compareKey, baselineKey) ==
  IF compareKey = baselineKey
  THEN << "No baseline found for key \"" \o compareKey
            \o "\". Created a baseline with the current snapshot." >>
  ELSE << "No baseline found for key \"" \o compareKey
            \o "\". Created a baseline under \"" \o baselineKey
            \o "\" with the current snapshot." >>

Writes(e) ==
  Captured(e) /\ (CompareKeyOf(e) \notin DOMAIN e.store \/ ~OptsOut(e))

WritersOf(key) ==
  {i \in DOMAIN snapshotLog : Writes(snapshotLog[i]) /\ BaselineKeyOf(snapshotLog[i]) = key}

\* C19: the Baseline Store holds one baseline per key and the latest write
\* wins: a key that no command wrote is absent, and any other key maps to
\* the snapshot of the most recent command that wrote it.
C19_LatestWriteWins ==
  \A key \in {"default", "a"} \cup DOMAIN baselines :
    IF WritersOf(key) = {} THEN key \notin DOMAIN baselines
    ELSE /\ key \in DOMAIN baselines
         /\ \E i \in WritersOf(key) :
              /\ \A j \in WritersOf(key) : j <= i
              /\ baselines[key] = snapshotLog[i].snapshot

\* two commands wrote key a with different snapshots, the later one is
\* stored, and no command wrote key "default"
C19_Witness ==
  /\ WritersOf("a") = {1, 3} /\ WritersOf("default") = {}
  /\ snapshotLog[1].snapshot # snapshotLog[3].snapshot
  /\ baselines = SetProp(NoProps, "a", snapshotLog[3].snapshot)

\* the process is a one-shot invocation: it has a command and no readline
OneShot == rl = "none" /\ cur.lineNo = 1

CountsLine(added, removed, changed) ==
  "Added nodes: " \o ToString(added) \o ", Removed nodes: " \o ToString(removed)
    \o ", Changed nodes: " \o ToString(changed)

\* C21: when a call stored its snapshot under key K, no later call wrote K,
\* and a following call that compares against K captures a different
\* snapshot (the page was mutated in between), the following call reports
\* "Accessibility changes compared to baseline" and the counts of its
\* second line sum to at least one.
C21_MutationReported ==
  \A i \in DOMAIN snapshotLog : \A j \in (i + 1)..Len(snapshotLog) :
    LET first == snapshotLog[i]
        second == snapshotLog[j]
        key == BaselineKeyOf(first)
    IN  (/\ Writes(first) /\ Captured(second) /\ CompareKeyOf(second) = key
         /\ second.snapshot # first.snapshot
         /\ \A k \in (i + 1)..(j - 1) :
              ~(Writes(snapshotLog[k]) /\ BaselineKeyOf(snapshotLog[k]) = key)) =>
          /\ ReportsChanges(second)
          /\ \E added, removed, changed \in 0..(Len(first.snapshot) + Len(second.snapshot)) :
               /\ added + removed + changed >= 1
               /\ second.lines[2] = CountsLine(added, removed, changed)

\* the baseline was created on the blank page, the page got its heading, and
\* the second call on the key reports one added node
C21_Witness ==
  /\ Len(snapshotLog) = 2
  /\ BaselineKeyOf(snapshotLog[1]) = "default" /\ CompareKeyOf(snapshotLog[2]) = "default"
  /\ snapshotLog[1].snapshot = PageBlank /\ snapshotLog[2].snapshot = PageHello
  /\ snapshotLog[2].lines[2] = CountsLine(1, 0, 0)
  /\ snapshotLog[2].lines[3] = "## Added"

(***************************************************************************)
(* Properties of the diff engine.                                          *)
(***************************************************************************)
\* the paths of a list of nodes or of changed entries
PathsIn(list) == {list[i].path : i \in DOMAIN list}

\* C22: comparing a normalized snapshot with itself gives empty added,
\* removed and changed lists, and hasChanges of that diff is false.
C22_SelfDiffIsEmpty ==
  \A i \in DOMAIN diffLog :
    diffLog[i].old = diffLog[i].new =>
      /\ diffLog[i].diff.added = << >>
      /\ diffLog[i].diff.removed = << >>
      /\ diffLog[i].diff.changed = << >>
      /\ ~diffLog[i].hasChanges

\* a snapshot of three nodes, one with an attribute, was compared with itself
C22_Witness ==
  \E i \in DOMAIN diffLog :
    /\ diffLog[i].old = diffLog[i].new
    /\ Len(diffLog[i].old) = 3
    /\ \E k \in DOMAIN diffLog[i].old : diffLog[i].old[k].attributes # NoProps
    /\ ~diffLog[i].hasChanges

\* C23: for all normalized snapshots A and B, the paths of diff(A, B).added
\* are the paths of diff(B, A).removed.
C23_AddedMirrorsRemoved ==
  \A i \in DOMAIN diffLog : \A j \in DOMAIN diffLog :
    (diffLog[i].old = diffLog[j].new /\ diffLog[i].new = diffLog[j].old) =>
      PathsIn(diffLog[i].diff.added) = PathsIn(diffLog[j].diff.removed)

\* B has two nodes more than A and one node changed; both directions were
\* computed
C23_Witness ==
  /\ Len(diffLog) = 2
  /\ diffLog[1].old = diffLog[2].new /\ diffLog[1].new = diffLog[2].old
  /\ PathsIn(diffLog[1].diff.added) = {"0.0", "0.1"}
  /\ PathsIn(diffLog[2].diff.removed) = {"0.0", "0.1"}
  /\ diffLog[2].diff.added = << >>

\* the fields of two nodes that differ
DifferingFields(before, after) ==
  {f \in {"role", "name", "attributes"} : before[f] # after[f]}

\* the value of a field as a change entry shows it
FieldValue(node, f) == IF f = "attributes" THEN Obj(node[f]) ELSE Str(node[f])

\* the outcome of one path in a diff: the lists that hold it
OutcomesOf(diff, path) ==
  {l \in {"added", "removed", "changed"} : path \in PathsIn(diff[l])}

\* C24: a path only in new is in added and nowhere else, a path only in old
\* is in removed and nowhere else; a path in both whose nodes differ in role,
\* name or attributes is in changed and nowhere else, with exactly one entry
\* {property, before, after} per differing field; a path in both without a
\* differing field is in no list; no list holds a path twice or a path of
\* neither snapshot; hasChanges is true iff some list is not empty.
C24_EveryPathClassified ==
  \A i \in DOMAIN diffLog :
    LET old == diffLog[i].old
        new == diffLog[i].new
        diff == diffLog[i].diff
    IN  /\ \A path \in PathsOf(old) \cup PathsOf(new) :
             OutcomesOf(diff, path) =
               IF path \notin PathsOf(old) THEN {"added"}
               ELSE IF path \notin PathsOf(new) THEN {"removed"}
               ELSE IF DifferingFields(NodeAt(old, path), NodeAt(new, path)) # {}
               THEN {"changed"}
               ELSE {}
        /\ \A l \in {"added", "removed", "changed"} :
             /\ Cardinality(PathsIn(diff[l])) = Len(diff[l])
             /\ PathsIn(diff[l]) \subseteq PathsOf(old) \cup PathsOf(new)
        /\ \A k \in DOMAIN diff.changed :
             LET before == NodeAt(old, diff.changed[k].path)
                 after == NodeAt(new, diff.changed[k].path)
                 changes == diff.changed[k].changes
             IN  /\ Len(changes) = Cardinality(DifferingFields(before, after))
                 /\ {changes[c].property : c \in DOMAIN changes}
                      = DifferingFields(before, after)
                 /\ \A c \in DOMAIN changes :
                      /\ changes[c].before = FieldValue(before, changes[c].property)
                      /\ changes[c].after = FieldValue(after, changes[c].property)
        /\ diffLog[i].hasChanges <=>
             (diff.added # << >> \/ diff.removed # << >> \/ diff.changed # << >>)

\* one call had all four outcomes: the first child changed in role and name,
\* the second child was added, the root is in no list; the other call had a
\* removed node and a change of the attributes alone
C24_Witness ==
  /\ Len(diffLog) = 2
  /\ PathsIn(diffLog[1].diff.added) = {"0.1"}
  /\ Len(diffLog[1].diff.changed) = 1
  /\ Len(diffLog[1].diff.changed[1].changes) = 2
  /\ PathsIn(diffLog[2].diff.removed) = {"0.1"}
  /\ Len(diffLog[2].diff.changed) = 1
  /\ diffLog[2].diff.changed[1].changes[1].property = "attributes"
  /\ diffLog[1].hasChanges /\ diffLog[2].hasChanges

(***************************************************************************)
(* Properties of the Command Decoder, over the steps that take a line.     *)
(***************************************************************************)
\* the loop takes the line at the head of the queue
Takes(line) == consumed' # consumed /\ Head(rlBuffer) = line

\* the step decodes the line to a command of the tool with these raw params
\* and goes on to the guard
DecodesTo(toolName, rawParams) ==
  /\ cur'.toolName = toolName /\ cur'.rawParams = rawParams
  /\ pc' = "acquire" /\ out' = out

\* the step reports one decode error with this message and nothing else
\* happens: no handler, the guard stays free, the store is unchanged, and
\* the session is back at the top of the loop with the input open
RejectsWith(message) ==
  /\ Len(out') = Len(out) + 1
  /\ \A k \in DOMAIN out : out'[k] = out[k]
  /\ ReportsError(out'[Len(out')], message)
  /\ handlers' = handlers /\ trace' = trace
  /\ mutexHolder = 0 /\ mutexHolder' = 0
  /\ baselines' = baselines
  /\ cur' = NoCommand /\ pc' = "loop" /\ rl' = "open" /\ exc' = "" /\ exitCode' = 0

\* the raw params of fill
FillParams(uid, value) ==
  SetProp(SetProp(NoProps, "uid", Str(uid)), "value", Str(value))

\* C25: the tokenizer splits on unquoted whitespace, strips single and
\* double quotes keeping the whitespace inside them, and lets a backslash
\* escape the next character: `fill <uid> "Example text"` gives the tool
\* token and exactly the tokens `<uid>` and `Example text`; a line with an
\* unclosed quote is reported as one decode error, runs nothing, and the
\* session goes on.
C25_Step ==
  /\ Takes("fill <uid> \"Example text\"") =>
       /\ tokenizeCliLine(Head(rlBuffer)).ok
       /\ tokenizeCliLine(Head(rlBuffer)).tokens = << "fill", "<uid>", "Example text" >>
       /\ DecodesTo("fill", FillParams("<uid>", "Example text"))
  /\ Takes("fill 'a b' c\\ d") =>
       /\ tokenizeCliLine(Head(rlBuffer)).tokens = << "fill", "a b", "c d" >>
       /\ DecodesTo("fill", FillParams("a b", "c d"))
  /\ Takes("fill \"abc") =>
       /\ ~tokenizeCliLine(Head(rlBuffer)).ok
       /\ RejectsWith("Unterminated quote in CLI line")

\* C25: every step that takes one of the quoted or escaped lines tokenizes it
\* as stated above: quotes group, a backslash escapes, an open quote is an error.
C25_QuotesAndEscapes == [][C25_Step]_vars

\* the line with the unclosed quote was reported, and the handler of the
\* next line, the fill with the quoted value, is running
C25_Witness ==
  /\ consumed = << "fill \"abc", "fill <uid> \"Example text\"" >>
  /\ Len(out) = 1 /\ ReportsError(out[1], "Unterminated quote in CLI line")
  /\ \E h \in InFlight : h.id = 2 /\ h.params = FillParams("<uid>", "Example text")

\* the raw params with one boolean parameter
OneBoolean(key, b) == SetProp(NoProps, key, Bool(b))

\* C26: for a boolean parameter p, `--p` decodes p to true and `--no-p`
\* decodes p to false, in kebab case or camel case; a line with neither
\* leaves p out of the raw params, and validation then puts the declared
\* default in its place (includePreservedMessages, default false) or leaves
\* it absent when none is declared (verbose); a decoded value passes
\* validation unchanged.
C26_Step ==
  /\ Takes("list_console_messages --includePreservedMessages") =>
       DecodesTo("list_console_messages", OneBoolean("includePreservedMessages", TRUE))
  /\ Takes("list_console_messages --no-include-preserved-messages") =>
       DecodesTo("list_console_messages", OneBoolean("includePreservedMessages", FALSE))
  /\ Takes("list_console_messages") => DecodesTo("list_console_messages", NoProps)
  /\ Takes("take_snapshot --verbose") => DecodesTo("take_snapshot", OneBoolean("verbose", TRUE))
  /\ Takes("take_snapshot --no-verbose") =>
       DecodesTo("take_snapshot", OneBoolean("verbose", FALSE))
  /\ Takes("take_snapshot") => DecodesTo("take_snapshot", NoProps)

C26_Validated ==
  \A h \in handlers :
    /\ consumed[h.id] = "list_console_messages" =>
         h.params = OneBoolean("includePreservedMessages", FALSE)
    /\ consumed[h.id] = "list_console_messages --includePreservedMessages" =>
         h.params = OneBoolean("includePreservedMessages", TRUE)
    /\ consumed[h.id] = "list_console_messages --no-include-preserved-messages" =>
         h.params = OneBoolean("includePreservedMessages", FALSE)
    /\ consumed[h.id] = "take_snapshot" => h.params = NoProps
    /\ consumed[h.id] = "take_snapshot --verbose" => h.params = OneBoolean("verbose", TRUE)
    /\ consumed[h.id] = "take_snapshot --no-verbose" =>
         h.params = OneBoolean("verbose", FALSE)

\* C26: `--p` decodes true and `--no-p` decodes false for a boolean p, in the
\* decoding step and in what the handler is called with; without the flag the
\* declared default applies, or the parameter is absent.
C26_BooleanFlags == []C26_Validated /\ [][C26_Step]_vars

\* `--no-verbose` was decoded to false and ran; the line without the flag
\* was decoded without the parameter and its handler runs with the default
C26_Witness ==
  /\ consumed = << "take_snapshot --no-verbose", "list_console_messages" >>
  /\ cur.rawParams = NoProps
  /\ \E h \in InFlight :
       h.id = 2 /\ h.params = OneBoolean("includePreservedMessages", FALSE)
  /\ Len(out) = 1 /\ out[1].kind = "success"

\* C27: after a `--` token every following token is a positional value,
\* whatever its text: tokens that begin with `--`, and a further `--` token
\* too, fill the positional slots.
C27_Step ==
  /\ Takes("fill -- --a --no-b") => DecodesTo("fill", FillParams("--a", "--no-b"))
  /\ Takes("fill -- -- x") => DecodesTo("fill", FillParams("--", "x"))

\* C27: every token after the first `--` is positional, a second `--` and
\* tokens that begin with `--` included.
C27_AllPositionalAfterDoubleDash == [][C27_Step]_vars

\* the raw params of resize_page
ResizeParams(width, height) ==
  SetProp(SetProp(NoProps, "width", Num(width)), "height", Num(height))

\* the positional slots of the tools, and positional tokens on lines
\* without flags: the k-th token fills the k-th slot, coerced to its shape;
\* a token for an optional, array or boolean parameter finds no slot
C28_Slots ==
  /\ positionalKeys(fill) = << "uid", "value" >>
  /\ positionalKeys(resizePage) = << "width", "height" >>
  /\ positionalKeys(waitFor) = << "text" >>
  /\ positionalKeys(takeSnapshot) = << >>
  /\ positionalKeys(takeChangeSnapshot) = << >>
  /\ positionalKeys(listConsoleMessages) = << >>
  /\ positionalKeys(fillForm) = << >>
  /\ positionalKeys(performanceStartTrace) = << >>

C28_SlotsStep ==
  /\ Takes("fill <uid> \"Example text\"") =>
       DecodesTo("fill", FillParams("<uid>", "Example text"))
  /\ Takes("resize_page 800 600") => DecodesTo("resize_page", ResizeParams(800, 600))
  /\ Takes("take_snapshot path") => RejectsWith("Unexpected extra arg: path")
  /\ Takes("fill_form x") => RejectsWith("Unexpected extra arg: x")
  /\ Takes("performance_start_trace true") => RejectsWith("Unexpected extra arg: true")

\* C28 as stated: the positional slots are the required parameters of
\* string, number or enum shape in declared order, the k-th positional token
\* fills the k-th slot, no other parameter is filled positionally, and the
\* slots are filled before any flag is read: on `fill --uid x a b` the flag,
\* read after the positional tokens, sets uid last.
C28_StatedStep ==
  /\ C28_SlotsStep
  /\ Takes("fill --uid x a b") => DecodesTo("fill", FillParams("x", "b"))

\* C28 as stated: the positional slots are filled before any `--name` flag is
\* read, so a flag given for a slot wins over a positional token.
C28_PositionalsBeforeFlags == []C28_Slots /\ [][C28_StatedStep]_vars

\* C28, amended: the same slots, filled in the order of the positional
\* tokens; the tokens of a line are read in one pass in line order, flags
\* and positional tokens alike, so on `fill --uid x a b` the positional
\* token a, read after the flag, sets uid last.
C28_Step ==
  /\ C28_SlotsStep
  /\ Takes("fill --uid x a b") => DecodesTo("fill", FillParams("a", "b"))

\* C28: positional tokens fill the positional slots of the tool in order, in
\* one pass over the line together with the flags; the later of a flag and a
\* positional token for the same slot wins.
C28_PositionalSlots == []C28_Slots /\ [][C28_Step]_vars

\* the two numbers of resize_page were decoded in order, and after it the
\* line with the flag before the positional tokens was decoded to uid a
C28_Witness ==
  /\ consumed = << "resize_page 800 600", "fill --uid x a b" >>
  /\ pc = "acquire" /\ cur.rawParams = FillParams("a", "b")
  /\ Len(out) = 1 /\ out[1].kind = "success"

\* an error report whose message begins with m, in either output format
ReportsErrorStarting(o, m) ==
  /\ o.kind = "error"
  /\ IF "json" \in DOMAIN o THEN startsWith(o.json.error, m)
     ELSE \E k \in 1..Len(o.text) : startsWith(slice(o.text, k), ": " \o m)

\* C29: in CLI-line form an unknown `--flag`, a `--no-flag` for an
\* undeclared name, a positional token beyond the positional slots, a
\* non-boolean flag without a value, non-numeric text for a number parameter
\* and invalid JSON for an array parameter are decode errors: the step that
\* takes the line writes one error report that names the flag or the token,
\* no handler runs, the guard stays free and the Baseline Store is unchanged.
C29_Step ==
  /\ Takes("take_snapshot --bogus") => RejectsWith("Unknown param: --bogus")
  /\ Takes("take_snapshot --no-bogus") => RejectsWith("Unknown param: --bogus")
  /\ Takes("fill a b c") => RejectsWith("Unexpected extra arg: c")
  /\ Takes("take_snapshot --filePath") => RejectsWith("Missing value for --filePath")
  /\ Takes("resize_page 800 abc") => RejectsWith("Invalid number for --height: abc")
  /\ Takes("fill_form --elements [x") =>
       /\ RejectsWith(out'[Len(out')].json.error)
       /\ ReportsErrorStarting(out'[Len(out')], "Failed to parse --elements as JSON array")

\* the lines of C29 never begin a handler
C29_NoHandler ==
  \A k \in DOMAIN trace : consumed[trace[k].id] \notin RejectedLines

\* C29: each of the six malformed CLI lines is reported once, naming the flag
\* or token, and never runs a handler, acquires the guard or changes the
\* Baseline Store.
C29_DecodeErrors == []C29_NoHandler /\ [][C29_Step]_vars

\* a baseline was stored, then the line with the non-numeric height was
\* reported; the store still holds the baseline and the session takes input
C29_Witness ==
  /\ consumed = << "take_change_snapshot", "resize_page 800 abc" >>
  /\ baselines = SetProp(NoProps, "default", PageBlank)
  /\ Len(out) = 2 /\ out[1].kind = "success"
  /\ ReportsError(out[2], "Invalid number for --height: abc")
  /\ pc = "loop" /\ rl = "open" /\ mutexHolder = 0 /\ handlers = {}

\* the step leaves everything but the input queue and its history alone
IgnoresLine ==
  UNCHANGED << args, pc, browser, context, baselines, page, connected, mutexHolder,
               rl, delivered, stdinEnded, cur, handlers, out, exc, exitCode, calls,
               trace, snapshotLog, diffLog >>

\* C30: a blank line and a line whose first non-space character is `#` give
\* no output, no handler and no change of state; a line in JSON form is never
\* passed over: malformed JSON, and an object without a string `tool` such as
\* `{}`, each give exactly one error report.
C30_Step ==
  /\ \A line \in {"", "  ", "# note", "  # note"} : Takes(line) => IgnoresLine
  /\ Takes("{") => RejectsWith(JSONparse("{").error)
  /\ Takes("{}") => RejectsWith("Missing required field: \"tool\" (string)")

\* none of these lines begins a handler
C30_NoHandler ==
  \A k \in DOMAIN trace : consumed[trace[k].id] \notin EmptyLines

\* C30: blank and `#` lines are passed over without a trace; malformed JSON
\* and `{}` are each reported exactly once and run no handler.
C30_CommentsAndJsonErrors == []C30_NoHandler /\ [][C30_Step]_vars

\* a comment line was passed over, then `{}` was reported, once
C30_Witness ==
  /\ consumed = << "  # note", "{}" >>
  /\ Len(out) = 1
  /\ ReportsError(out[1], "Missing required field: \"tool\" (string)")
  /\ pc = "loop" /\ rl = "open" /\ handlers = {} /\ trace = << >>

\* one line of the json format about the tool `name`: a success line with
\* `tool` and `content`, or an error line with `tool`, `isError` and `error`
IsJsonLineOf(o, name) ==
  /\ o.stream = "stdout"
  /\ "json" \in DOMAIN o
  /\ o.json.tool = name
  /\ \/ o.kind = "success" /\ DOMAIN o.json = {"tool", "content"}
     \/ /\ o.kind = "error" /\ DOMAIN o.json = {"tool", "isError", "error"}
        /\ o.json.isError

\* no command is left over where the loop body is not running
C31_State ==
  pc \in {"launch", "context", "init", "loop", "rlclose", "teardown", "done",
          "main_catch", "exited"}
    => cur = NoCommand

\* a command begins without output and as the latest line taken; while it
\* runs nothing is written; the step that ends it appends its one line
C31_Step ==
  args.format = "json" =>
    /\ cur.lineNo = 0 /\ cur'.lineNo # 0 =>
         /\ out' = out
         /\ cur'.lineNo = Len(consumed') /\ cur'.lineNo > Len(consumed)
    /\ cur.lineNo # 0 /\ cur'.lineNo = cur.lineNo => out' = out
    /\ cur.lineNo # 0 /\ cur'.lineNo # cur.lineNo =>
         /\ cur' = NoCommand
         /\ Len(out') = Len(out) + 1
         /\ \A k \in DOMAIN out : out'[k] = out[k]
         /\ IsJsonLineOf(out'[Len(out')], cur.toolName)

\* C31: in json format every command that reaches execution writes exactly
\* one line, {tool, content} or {tool, isError: true, error}, never both and
\* never none, and the lines are appended in the order the commands came.
C31_OneLinePerCommand == []C31_State /\ [][C31_Step]_vars

\* two commands ran their handlers; the first wrote a success line and the
\* second an error line, in that order
C31_Witness ==
  /\ args.format = "json"
  /\ Len(consumed) = 2
  /\ \E i, j \in DOMAIN trace :
       trace[i].ev = "begin" /\ trace[i].id = 1 /\ trace[j].ev = "begin" /\ trace[j].id = 2
  /\ Len(out) = 2 /\ out[1].kind = "success" /\ out[2].kind = "error"
  /\ pc = "loop" /\ cur = NoCommand

\* how often a handler was begun
Begun == Cardinality({k \in DOMAIN trace : trace[k].ev = "begin"})

\* the handler ran once and returned, and its result was written to stdout
OnceSucceeded ==
  /\ Begun = 1
  /\ out # << >>
  /\ \A k \in DOMAIN out : out[k].stream = "stdout" /\ out[k].kind = "success"

\* the error that escaped is the last thing written, on stderr, and nothing
\* was written to stdout
OnceFailedWith(message) ==
  /\ exc = message
  /\ Len(out) = 1
  /\ out[1] = [stream |-> "stderr", kind |-> "fatal", text |-> message]

\* the ways a one-shot invocation fails
OnceErrors ==
  { "Unknown tool: nosuch",
    "Tool emulate is disabled by category or experimental flags.",
    "ZodError: text: Expected string",
    "Timed out after waiting",
    "Could not launch or connect to the browser",
    "Could not create the context",
    "Initial detection failed" }

\* exit code 0 with the result, or exit code 1 with the error on stderr
C32_ExitCode ==
  OneShot =>
    /\ Begun <= 1
    /\ pc # "exited" => exitCode = 0
    /\ pc = "exited" =>
         \/ exitCode = 0 /\ exc = "" /\ OnceSucceeded
         \/ exitCode = 1 /\ \E m \in OnceErrors : OnceFailedWith(m)

\* the guard is released, the context disposed and the browser closed or
\* disconnected, once, when the browser was opened
C32_Teardown ==
  OneShot =>
    /\ calls.teardown <= 1
    /\ calls.teardown = 1 => calls.launch + calls.connect = 1
    /\ pc = "exited" /\ calls.launch + calls.connect = 1 =>
         /\ calls.teardown = 1 /\ calls.close + calls.disconnect = 1
         /\ mutexHolder = 0 /\ context = "disposed"
         /\ browser \in {"closed", "disconnected"}

\* C32: a one-shot invocation runs its handler at most once and ends with
\* exit code 0 when handler and output succeed, with exit code 1 and the
\* message on stderr for any error that escapes; whenever the browser was
\* opened, the teardown (guard, context, close or disconnect) runs exactly
\* once on both outcomes.
C32_OneShotExitAndTeardown == C32_ExitCode /\ C32_Teardown

\* the step that takes the pasted line of d decodes the tool and the example
\* params of d
RoundTrips(d) ==
  \A withPrefix \in BOOLEAN :
    Takes(PastedLine(d, withPrefix)) => DecodesTo(d.tool.name, d.example)

\* every example round trips
C33_Step == \A d \in DocExamples : RoundTrips(d)

ResourceTypes(items) ==
  SetProp(NoProps, "resourceTypes", Arr([i \in DOMAIN items |-> Str(items[i])]))

\* what the decoding step makes of the lines with the array parameter
C34_Step ==
  /\ Takes("list_network_requests --resourceTypes script") =>
       DecodesTo("list_network_requests", ResourceTypes(<< "script" >>))
  /\ Takes("list_network_requests --resourceTypes script --resourceTypes image") =>
       DecodesTo("list_network_requests", ResourceTypes(<< "script", "image" >>))
  /\ Takes("list_network_requests --resourceTypes image --resourceTypes script --resourceTypes font") =>
       DecodesTo("list_network_requests", ResourceTypes(<< "image", "script", "font" >>))
  /\ Takes("list_network_requests --resourceTypes '[\"a\",\"b\"]'") =>
       DecodesTo("list_network_requests", ResourceTypes(<< "a", "b" >>))

\* the handler is called with the sequence, in the order of the line
C34_Validated ==
  \A h \in handlers :
    consumed[h.id] = "list_network_requests --resourceTypes script --resourceTypes image"
      => h.params = ResourceTypes(<< "script", "image" >>)

\* C34: repeated `--a v` of an array parameter a accumulate into a sequence
\* in order of occurrence (`--a x --a y` is [x, y]), and one value that is a
\* JSON-array literal decodes to that array.
C34_ArraysAccumulate == []C34_Validated /\ [][C34_Step]_vars

\* the repeated flags were decoded to [script, image], and then the literal
\* to [a, b]
C34_Witness ==
  /\ consumed = << "list_network_requests --resourceTypes script --resourceTypes image",
                   "list_network_requests --resourceTypes '[\"a\",\"b\"]'" >>
  /\ pc = "acquire" /\ cur.rawParams = ResourceTypes(<< "a", "b" >>)
  /\ Len(out) = 1 /\ out[1].kind = "success"

\* the keys at which two stores differ
ChangedKeys(before, after) ==
  {k \in (DOMAIN before) \cup (DOMAIN after) :
     IF k \in DOMAIN before /\ k \in DOMAIN after THEN before[k] # after[k] ELSE TRUE}

\* a step changes the store only as the return of a take_change_snapshot
\* handler that captured a snapshot, and then at most at its baselineKey
C35_Step ==
  /\ baselines' # baselines =>
       /\ Len(snapshotLog') = Len(snapshotLog) + 1
       /\ snapshotLog'[Len(snapshotLog')].snapshot # NoSnapshot
  /\ Len(snapshotLog') = Len(snapshotLog) + 1 =>
       LET call == snapshotLog'[Len(snapshotLog')]
           baselineKey == stringParamOr(call.params, "baselineKey", "default")
           compareKey == stringParamOr(call.params, "compareTo", baselineKey)
       IN  /\ call.store = baselines
           /\ ChangedKeys(baselines, baselines') \subseteq {baselineKey}
           /\ compareKey # baselineKey =>
                compareKey \notin ChangedKeys(baselines, baselines')
           /\ call.snapshot = NoSnapshot => baselines' = baselines

\* C35: take_change_snapshot changes at most the Baseline Store entry at
\* baselineKey: in every outcome the entries at all other keys, the one at
\* compareTo included when it differs from baselineKey, are unchanged, and
\* when the capture fails the whole store is unchanged.
C35_OnlyBaselineKeyChanges == [][C35_Step]_vars

\* a call compared with the baseline at a, found changes and wrote the
\* snapshot under default; the baseline at a is as it was
C35_Witness ==
  /\ snapshotLog # << >>
  /\ LET call == snapshotLog[Len(snapshotLog)]
     IN  /\ GetProp(call.params, "compareTo") = Str("a")
         /\ "baselineKey" \notin DOMAIN call.params
         /\ "a" \in DOMAIN call.store /\ "default" \notin DOMAIN call.store
         /\ call.snapshot # NoSnapshot /\ call.snapshot # call.store["a"]
         /\ baselines = SetProp(call.store, "default", call.snapshot)

\* C36: when the initial environment detection fails after browser and
\* context were created, the session reads and executes no command, the
\* teardown (context dispose, browser close or disconnect) still runs exactly
\* once, and the process ends with exit code 1.
C36_DetectionFailure ==
  exc = "Initial detection failed" =>
    /\ calls.launch + calls.connect = 1 /\ calls.context = 1 /\ calls.detect = 1
    /\ rl = "none" /\ delivered = 0 /\ rlBuffer = << >> /\ consumed = << >>
    /\ cur = NoCommand /\ handlers = {} /\ trace = << >> /\ mutexHolder = 0
    /\ pc \in {"teardown", "main_catch", "exited"}
    /\ pc = "teardown" => calls.teardown = 0 /\ context = "live" /\ browser = "open"
    /\ pc \in {"main_catch", "exited"} =>
         /\ calls.teardown = 1 /\ calls.close + calls.disconnect = 1
         /\ context = "disposed" /\ browser \in {"closed", "disconnected"}
    /\ pc # "exited" => exitCode = 0 /\ out = << >>
    /\ pc = "exited" =>
         /\ exitCode = 1
         /\ out = << [stream |-> "stderr", kind |-> "fatal",
                      text |-> "Initial detection failed"] >>

\* the process has ended after a failed detection: one teardown, exit code 1
C36_Witness ==
  /\ pc = "exited" /\ exc = "Initial detection failed"
  /\ calls.teardown = 1 /\ exitCode = 1 /\ consumed = << >>

\* the line the dual-form session wrote is the object the JSON-only session
\* writes with writeJsonLine, but for a `tool` field the latter does not have
SameButForTool(o, obj) ==
  /\ o.stream = "stdout" /\ o.kind = "error"
  /\ IF "tool" \in DOMAIN obj THEN o.json = obj
     ELSE /\ DOMAIN o.json = (DOMAIN obj) \cup {"tool"}
          /\ \A f \in DOMAIN obj : o.json[f] = obj[f]

\* the step of the dual-form session that takes a line is the step the
\* JSON-only loop makes on that line: the same command with the same raw
\* params on to the guard, the same `continue`, the same `break`
C37_Step ==
  consumed' # consumed =>
    LET d == jsonOnlyDecodeLine(Head(rlBuffer), args)
    IN  /\ startsWith(trim(Head(rlBuffer)), "{")
        /\ pc' = afterLine(d.kind)
        /\ mutexHolder = 0 /\ mutexHolder' = 0 /\ handlers' = handlers /\ trace' = trace
        /\ cur' = IF d.kind = "command"
                  THEN [lineNo |-> Len(consumed) + 1, toolName |-> d.toolName,
                        tool |-> findTool(d.toolName), rawParams |-> d.rawParams,
                        response |-> << >>, includeSnapshot |-> FALSE]
                  ELSE NoCommand
        /\ IF d.kind = "error"
           THEN /\ Len(out') = Len(out) + 1
                /\ \A k \in DOMAIN out : out'[k] = out[k]
                /\ SameButForTool(out'[Len(out')], d.json)
           ELSE out' = out

\* C37: on input lines that each start with `{` the JSON-only session and the
\* session of both forms in json format invoke the same handlers with the
\* same raw params in the same order, stop at the same line, and acquire and
\* release the guard at the same points; their outputs differ only in the
\* `tool` field of decode-error lines.
C37_SessionsAgree == [][C37_Step]_vars

\* `{}` was answered with a decode error and the command of the second line
\* has run and written its result
C37_Witness ==
  /\ consumed = << "{}", "{\"tool\":\"take_change_snapshot\",\"params\":{\"replaceBaseline\":false}}" >>
  /\ Len(out) = 2 /\ out[1].kind = "error" /\ out[1].json.tool = "session"
  /\ out[2].kind = "success"
  /\ pc = "loop" /\ mutexHolder = 0

\* what the decoding step makes of a parameter given by flag and by position
C38_Step ==
  /\ Takes("fill --value v a") => DecodesTo("fill", FillParams("a", "v"))
  /\ Takes("fill --uid x a b") => DecodesTo("fill", FillParams("a", "b"))
  /\ Takes("fill a --uid x b") => DecodesTo("fill", FillParams("x", "b"))
  /\ Takes("fill a b --uid x") => DecodesTo("fill", FillParams("x", "b"))
  /\ Takes("fill a b --value c") => DecodesTo("fill", FillParams("a", "c"))
  /\ Takes("resize_page --height 5 800 600") =>
       DecodesTo("resize_page", ResizeParams(800, 600))

\* C38: a `--name value` flag does not consume a positional slot: positional
\* tokens fill the slots in order whatever flags stand among them, and when
\* a non-array parameter is given by flag and by position its value is the
\* one assigned last in the order of the tokens.
C38_LastWriteWins == [][C38_Step]_vars

\* the flag before the token left the first slot to the token, and in the
\* next line the flag after the first token replaced its value
C38_Witness ==
  /\ consumed = << "fill --value v a", "fill a --uid x b" >>
  /\ pc = "acquire" /\ cur.rawParams = FillParams("x", "b")
  /\ Len(out) = 1 /\ out[1].kind = "success"

\* the raw params of take_snapshot with filePath, and verbose when given
SnapshotParams(filePath, withVerbose) ==
  IF withVerbose
  THEN SetProp(SetProp(NoProps, "verbose", Bool(TRUE)), "filePath", Str(filePath))
  ELSE SetProp(NoProps, "filePath", Str(filePath))

\* what the decoding step makes of flags written without `=value`
C39_Step ==
  /\ Takes("take_snapshot --verbose false") => RejectsWith("Unexpected extra arg: false")
  /\ Takes("take_snapshot --verbose --filePath x") =>
       DecodesTo("take_snapshot", SnapshotParams("x", TRUE))
  /\ Takes("performance_start_trace --reload --autoStop") =>
       DecodesTo("performance_start_trace",
                 SetProp(SetProp(NoProps, "reload", Bool(TRUE)), "autoStop", Bool(TRUE)))
  /\ Takes("take_snapshot --filePath --verbose") =>
       DecodesTo("take_snapshot", SnapshotParams("--verbose", FALSE))
  /\ Takes("take_snapshot --filePath --") =>
       DecodesTo("take_snapshot", SnapshotParams("--", FALSE))
  /\ Takes("take_snapshot --filePath --no-verbose --verbose") =>
       DecodesTo("take_snapshot", SnapshotParams("--no-verbose", TRUE))

\* C39: a `--flag` of a boolean parameter written without `=value` decodes
\* to true and does not consume the following token, which is processed as
\* the next positional token or flag; a `--flag` of a non-boolean parameter
\* written without `=value` consumes the following token as its value, also
\* when that token begins with `--`.
C39_FlagValues == [][C39_Step]_vars

\* the path flag took `--verbose` as its value, and in the next line the
\* boolean flag left `--filePath x` to be read as a flag
C39_Witness ==
  /\ consumed = << "take_snapshot --filePath --verbose",
                   "take_snapshot --verbose --filePath x" >>
  /\ pc = "acquire" /\ cur.rawParams = SnapshotParams("x", TRUE)
  /\ Len(out) = 1 /\ out[1].kind = "success"
====
